---------------------------- MODULE Spec2Model ----------------------------
(***************************************************************************)
(* A model of PyBlock (alex4200/PyBlock): the section bit packer           *)
(* (pyblock/section.py), the chunk framing (pyblock/chunk.py), the region  *)
(* container (pyblock/region.py), the coordinate mapper (pyblock/tools.py) *)
(* and the Editor's deferred writes (pyblock/editor.py).                   *)
(*                                                                         *)
(* Each component has its own specification over the shared variables:     *)
(*   SpecSection  Section.set_block / get_nbt / read_blocks                *)
(*   SpecChunk    Chunk.get_bytes and the read back of Region.chunk_data   *)
(*   SpecRegion   Region.__init__ / Region.write                           *)
(*   SpecTools    tools.block_to_region / block_to_chunk / block_to_ylevel *)
(*   SpecLocator  tools.block_to_id_index                                  *)
(*   SpecEditor   Editor.set_block / get_block / done                      *)
(*   SpecRead     Region.chunk_data / copy_chunk                           *)
(*   SpecObject   Chunk.get_section / set_section / get_nbt                *)
(*   SpecFlush    Editor.done on a world where loading and encoding fail   *)
(*   SpecBlock    Block.__init__ / __eq__ / __hash__                       *)
(*   SpecCopy     Editor.copy_blocks / done on a world with block entities *)
(*   SpecPalette  Section.get_nbt on equal contents, read_blocks on signed *)
(*                and unsigned words                                       *)
(* The variables of the other components keep their idle values.           *)
(***************************************************************************)
EXTENDS Integers, Sequences, FiniteSets, TLC

VARIABLES
    \* ---- Section (pyblock/section.py)
    blocks,       \* Section.blocks: the Blocks of the section, cell k at k+1
    nbt_section,  \* the compound Section.get_nbt returned, or NoValue
    states,       \* the array Section.blockstates returned to get_nbt
    read_back,    \* the blocks of a second Section built from nbt_section
    spc           \* "edit", "packed" (after get_nbt) or "read" (after read_blocks)

secVars == <<blocks, nbt_section, states, read_back, spc>>

VARIABLES
    \* ---- Coordinate mapper (pyblock/tools.py)
    in_x, in_y, in_z,  \* absolute block coordinates x, y, z
    out_region,   \* the result of block_to_region(x, z)
    out_chunk,    \* the result of block_to_chunk(x, z)
    out_ylevel,   \* the result of block_to_ylevel(y)
    out_id_index, \* the result of block_to_id_index(x, y, z)
    called        \* the functions applied so far

toolVars ==
    <<in_x, in_y, in_z, out_region, out_chunk, out_ylevel, out_id_index, called>>

VARIABLES
    \* ---- Chunk framing (pyblock/chunk.py)
    chunk_data,      \* the compressed chunk, zlib.compress(...) in get_bytes
    bytes_data,      \* the bytes Chunk.get_bytes returned
    compressed_data, \* what Region.chunk_data slices out of bytes_data
    cpc              \* "new", "framed" (after get_bytes) or "read"

chunkVars == <<chunk_data, bytes_data, compressed_data, cpc>>

VARIABLES
    \* ---- Region (pyblock/region.py)
    disk,             \* the bytes of the region file
    self_data,        \* Region.data: the bytes read by Region.__init__
    chunks_to_update, \* the argument of the last Region.write
    rpc               \* "closed", "open", "written" or "raised"

regVars == <<disk, self_data, chunks_to_update, rpc>>

VARIABLES
    \* ---- Editor (pyblock/editor.py)
    world,          \* the chunks on disk: (region, chunk) -> the chunk's NBT
    blocks_map,     \* Editor.blocks_map, in insertion order
    sections,       \* Editor.sections: section id -> Section
    chunks,         \* Editor.chunks: (region, chunk) -> Chunk
    write_sections, \* Editor.write_sections: section id -> Section
    returned,       \* what the last get_block returned
    entities,       \* Editor.entities: the items (key, entity) of its lists,
                    \* in the order they were appended
    calls           \* the calls made on the Editor so far, in order

edVars ==
    <<world, blocks_map, sections, chunks, write_sections, returned, entities,
      calls>>

VARIABLES
    \* ---- reading a chunk of a region file (pyblock/region.py)
    rd_data,    \* Region.data of the Region that is read from
    rd_coord,   \* the chunk coordinates of the last read
    rd_result,  \* what the last read raised, returned and handed to zlib
    rd_pc       \* "open", or the name of the method called last

rdVars == <<rd_data, rd_coord, rd_result, rd_pc>>

VARIABLES
    \* ---- a Chunk object (pyblock/chunk.py)
    ck_chunk,   \* the Chunk built from a decoded chunk
    ck_arg,     \* the argument of the last call: a level or entities
    ck_result,  \* what the last call raised and returned
    ck_pc       \* "new", or the name of the method called last

ckVars == <<ck_chunk, ck_arg, ck_result, ck_pc>>

VARIABLES
    \* ---- Blocks (pyblock/block.py)
    bk_a, bk_b,  \* two Blocks
    bk_set,      \* a set of Blocks, as the elements it holds
    bk_eq,       \* the result of bk_a == bk_b
    bk_pc        \* "new", "eq" (after ==) or "add" (after set.add)

bkVars == <<bk_a, bk_b, bk_set, bk_eq, bk_pc>>

VARIABLES
    \* ---- two Sections with equal cells (pyblock/section.py)
    pl_blocks,     \* Section.blocks of the first Section
    pl_other,      \* Section.blocks of the second: cell by cell equal Blocks
    pl_nbt,        \* the compound get_nbt returned for the first
    pl_other_nbt,  \* the compound get_nbt returned for the second
    pl_signed,     \* whether the codec delivered the data words signed
    pl_read,       \* the blocks read_blocks got from pl_nbt
    pl_pc          \* "edit", "packed" (after get_nbt) or "read"

plVars ==
    <<pl_blocks, pl_other, pl_nbt, pl_other_nbt, pl_signed, pl_read, pl_pc>>

\* the variables that the actions of one component leave alone
notSec == <<toolVars, chunkVars, regVars, edVars, rdVars, ckVars, bkVars, plVars>>
notTool == <<secVars, chunkVars, regVars, edVars, rdVars, ckVars, bkVars, plVars>>
notChunk == <<secVars, toolVars, regVars, edVars, rdVars, ckVars, bkVars, plVars>>
notReg == <<secVars, toolVars, chunkVars, edVars, rdVars, ckVars, bkVars, plVars>>
notEd == <<secVars, toolVars, chunkVars, regVars, rdVars, ckVars, bkVars, plVars>>
notRd == <<secVars, toolVars, chunkVars, regVars, edVars, ckVars, bkVars, plVars>>
notCk == <<secVars, toolVars, chunkVars, regVars, edVars, rdVars, bkVars, plVars>>
notBk == <<secVars, toolVars, chunkVars, regVars, edVars, rdVars, ckVars, plVars>>
notPl == <<secVars, toolVars, chunkVars, regVars, edVars, rdVars, ckVars, bkVars>>

NoValue == "none"

(***************************************************************************)
(* Block (pyblock/block.py).  A Block is its identifier and its property   *)
(* mapping.  Identifiers, property names and property values are strings   *)
(* in the code; here each is the rank of the string in lexicographic       *)
(* order.  The mapping is a sequence of <<name, value>> pairs in insertion *)
(* order, as a Python dict keeps it.                                       *)
(***************************************************************************)
Block(id, properties) == [id |-> id, properties |-> properties]

\* dict equality: the same name -> value pairs, whatever the insertion order
PropsAsDict(properties) == {properties[i] : i \in DOMAIN properties}

\* Block.__eq__
BlockEq(a, b) ==
    a.id = b.id /\ PropsAsDict(a.properties) = PropsAsDict(b.properties)

\* Block(compound=...): reads Name and Properties back from the compound.
\* The compound of a Block holds exactly its identifier and its properties
\* in insertion order, so it is modelled by the same record.
BlockFromCompound(compound) == Block(compound.id, compound.properties)

\* Block(name, properties): the identifier is namespace + ":" + name, whose
\* rank among the identifiers of the namespace is the rank of the name; the
\* properties are taken over pair by pair in the order of the dict
BlockFromName(name, properties) == Block(name, properties)

RECURSIVE Flatten(_)
Flatten(properties) ==
    IF properties = <<>> THEN <<>>
    ELSE <<Head(properties)[1], Head(properties)[2]>> \o Flatten(Tail(properties))

\* string order of the dict part of Block.__repr__: "{'k': 'v', ...}".
\* A dict that is a proper prefix of another sorts after it, since "}"
\* follows both "'" and ",".
RECURSIVE DictReprLess(_, _)
DictReprLess(p, q) ==
    IF q = <<>> THEN p # <<>>
    ELSE IF p = <<>> THEN FALSE
    ELSE IF Head(p) # Head(q) THEN Head(p) < Head(q)
    ELSE DictReprLess(Tail(p), Tail(q))

\* Block.__repr__ as a sort key: f"Block({self.id} {self.properties})"
ReprLess(a, b) ==
    IF a.id # b.id THEN a.id < b.id
    ELSE DictReprLess(Flatten(a.properties), Flatten(b.properties))

(***************************************************************************)
(* Unsigned integers of arbitrary size, as Python's int: a value is the    *)
(* set of the positions of its 1 bits (bit 0 is the least significant).    *)
(***************************************************************************)
Pow2(n) == 2 ^ n

\* the binary numeral of a natural number below 2^31
ToBits(n) == {i \in 0..30 : (n \div Pow2(i)) % 2 = 1}

RECURSIVE SumPow2(_)
SumPow2(S) ==
    IF S = {} THEN 0
    ELSE LET i == CHOOSE j \in S : TRUE IN Pow2(i) + SumPow2(S \ {i})

\* the natural number of a numeral whose bits are all below position 31
FromBits(w) == SumPow2(w)

ShiftLeft(w, n) == {i + n : i \in w}
ShiftRight(w, n) == {i - n : i \in {j \in w : j >= n}}
BitOr(v, w) == v \cup w
BitAnd(v, w) == v \cap w

\* int.bit_length()
RECURSIVE bit_length(_)
bit_length(n) == IF n = 0 THEN 0 ELSE 1 + bit_length(n \div 2)

BitXor(v, w) == (v \ w) \cup (w \ v)

\* the number of bits of a hash value in the model
HashBits == 8

\* hash(str) and hash((name, value)): some function of the value
StrHash(id) == (id * 37 + 11) % Pow2(HashBits)

ItemHash(item) == (item[1] * 53 + item[2] * 29 + 5) % Pow2(HashBits)

\* mutant of DictHash: the items are hashed with their position in the dict
DictHash_Ordered(properties) ==
    IF properties = <<>> THEN {}
    ELSE ToBits((Len(properties) * ItemHash(properties[1])
                   + ItemHash(properties[Len(properties)])) % Pow2(HashBits))

\* hash(frozendict(properties)): the hashes of the items combined whatever
\* their order (frozendict hashes the frozenset of its items)
RECURSIVE XorAll(_)
XorAll(items) ==
    IF items = {} THEN {}
    ELSE LET item == CHOOSE i \in items : TRUE
         IN  BitXor(ToBits(ItemHash(item)), XorAll(items \ {item}))

DictHash(properties) == XorAll(PropsAsDict(properties))

\* Block.__hash__: hash(self.name()) ^ hash(frozendict(self.properties))
BlockHash(block) ==
    FromBits(BitXor(ToBits(StrHash(block.id)), DictHash(block.properties)))

\* set.add(block): a set keeps out an element that has the hash of one it
\* holds and is equal to it
SetAdd(set, block) ==
    IF \E i \in DOMAIN set :
           BlockHash(set[i]) = BlockHash(block) /\ BlockEq(set[i], block)
    THEN set
    ELSE Append(set, block)

(***************************************************************************)
(* Section (pyblock/section.py)                                            *)
(***************************************************************************)
\* the number of cells of a section, the 4096 of Section.read_blocks
SECTION_CELLS == 4096

\* the bits of a LONG, data_len in Section.read_blocks
LONG_BITS == 64

\* mutant of PackBits: the bit length of len(palette), not len(palette) - 1
PackBits_OfLen(palette) ==
    LET n == bit_length(Len(palette)) IN IF n > 4 THEN n ELSE 4

\* bits = max((len(palette) - 1).bit_length(), 4), in Section.blockstates
PackBits(palette) ==
    LET n == bit_length(Len(palette) - 1) IN IF n > 4 THEN n ELSE 4

\* the same line in Section.read_blocks
ReadBits(palette) ==
    LET n == bit_length(Len(palette) - 1) IN IF n > 4 THEN n ELSE 4

\* list(set(self.blocks)): one representative per class of equal Blocks,
\* the first one met; a set keeps the element it already holds.
RECURSIVE Distinct(_, _, _, _)
Distinct(blks, lo, hi, acc) ==
    IF lo > hi THEN acc
    ELSE IF lo = hi
    THEN IF \E i \in DOMAIN acc : BlockEq(acc[i], blks[lo])
         THEN acc ELSE Append(acc, blks[lo])
    ELSE LET mid == (lo + hi) \div 2
             left == Distinct(blks, lo, mid, acc)
         IN  \* the test only makes TLC evaluate the first half first
             IF Len(left) >= 0 THEN Distinct(blks, mid + 1, hi, left) ELSE left

\* Section.get_palette: the distinct Blocks sorted by their repr, as the
\* list of their compounds
get_palette(blks) ==
    SortSeq(Distinct(blks, 1, Len(blks), <<>>), ReprLess)

\* palette.index(block): position (from 0) of the first equal entry
PaletteIndex(palette, block) ==
    (CHOOSE i \in DOMAIN palette :
        /\ BlockEq(palette[i], block)
        /\ \A j \in 1..(i - 1) : ~BlockEq(palette[j], block)) - 1

\* bin_append(a, b, length) of Section.blockstates: (a << length) | b
bin_append(a, b, length) == BitOr(ShiftLeft(a, length), b)

\* mutant of BlockstatesStep: the index that made the word overflow is not
\* appended to the new word
BlockstatesStep_DropOnFlush(st, palette, bits, block) ==
    LET index == ToBits(PaletteIndex(palette, block)) IN
    IF st.current_len + bits > LONG_BITS
    THEN [current     |-> {},
          current_len |-> bits,
          states      |-> Append(st.states, st.current)]
    ELSE [current     |-> bin_append(index, st.current, st.current_len),
          current_len |-> st.current_len + bits,
          states      |-> st.states]

\* mutant of BlockstatesStep: the word is flushed when it is exactly full
\* after the append, one index early
BlockstatesStep_FlushEarly(st, palette, bits, block) ==
    LET index == ToBits(PaletteIndex(palette, block)) IN
    IF st.current_len + bits >= LONG_BITS
    THEN [current     |-> bin_append(index, {}, 0),
          current_len |-> bits,
          states      |-> Append(st.states, st.current)]
    ELSE [current     |-> bin_append(index, st.current, st.current_len),
          current_len |-> st.current_len + bits,
          states      |-> st.states]

\* one pass of the loop "for block in self.blocks" of Section.blockstates;
\* st is [current, current_len, states]
BlockstatesStep(st, palette, bits, block) ==
    LET index == ToBits(PaletteIndex(palette, block)) IN
    IF st.current_len + bits > LONG_BITS
    THEN [current     |-> bin_append(index, {}, 0),
          current_len |-> bits,
          states      |-> Append(st.states, st.current)]
    ELSE [current     |-> bin_append(index, st.current, st.current_len),
          current_len |-> st.current_len + bits,
          states      |-> st.states]

\* the loop over the cells lo..hi, in order
RECURSIVE BlockstatesLoop(_, _, _, _, _, _)
BlockstatesLoop(blks, palette, bits, lo, hi, st) ==
    IF lo > hi THEN st
    ELSE IF lo = hi THEN BlockstatesStep(st, palette, bits, blks[lo])
    ELSE LET mid == (lo + hi) \div 2
             left == BlockstatesLoop(blks, palette, bits, lo, mid, st)
         IN  \* the test only makes TLC evaluate the first half first
             IF left.current_len >= 0
             THEN BlockstatesLoop(blks, palette, bits, mid + 1, hi, left)
             ELSE left

\* Section.blockstates: the array of LONGs
blockstates(blks, nbt_palette) ==
    LET palette == [i \in DOMAIN nbt_palette |-> BlockFromCompound(nbt_palette[i])]
        bits == PackBits(palette)
        st == BlockstatesLoop(blks, palette, bits, 1, Len(blks),
                  [current |-> {}, current_len |-> 0, states |-> <<>>])
    IN  Append(st.states, st.current)

\* the locals new_palette and new_data of Section.get_nbt
get_nbt_locals(blks) ==
    LET new_palette == get_palette(blks)
    IN  [new_palette |-> new_palette,
         new_data    |-> blockstates(blks, new_palette)]

\* the compound Section.get_nbt builds from them: Y, biomes, and
\* block_states with the palette and, when the palette has more than one
\* entry, the data
section_compound(ylevel, biomes, loc) ==
    [Y |-> ylevel, biomes |-> biomes, palette |-> loc.new_palette,
     data |-> IF Len(loc.new_palette) > 1 THEN loc.new_data ELSE NoValue]

\* Section.get_nbt
get_nbt(ylevel, biomes, blks) ==
    section_compound(ylevel, biomes, get_nbt_locals(blks))

\* A 64-bit word as the tag codec delivers it to Python: the int with the
\* bits of the word at the positions 0..63 and, when negative is true, a 1
\* at every position above them (two's complement of unbounded length).
\* With the struct format "Q" of _update_fmt the codec delivers the word
\* unsigned; with the format "q" of the nbt library it is negative when
\* bit 63 is set.
Delivered(word, signed) ==
    [bits |-> word, negative |-> signed /\ (LONG_BITS - 1) \in word]

\* new_data += 2 ** 64 for a negative new_data
PlusTwoTo64(int) == [bits |-> int.bits, negative |-> FALSE]

\* data & bits_mask for the mask 2 ** bits - 1
MaskLow(int, bits) == BitAnd(int.bits, ToBits(Pow2(bits) - 1))

\* data >>= bits: Python's shift keeps the sign
PyShiftRight(int, n) ==
    [bits |-> ShiftRight(int.bits, n)
                  \cup (IF int.negative
                        THEN (LONG_BITS - n)..(LONG_BITS - 1) ELSE {}),
     negative |-> int.negative]

\* mutant of ReadBlocksStep: the next LONG is taken only when data_len is
\* below zero
ReadBlocksStep_LateRefill(st, palette, datas, bits) ==
    LET next == st.data_len < 0
        state == IF next THEN st.state + 1 ELSE st.state
        new_data == datas[state + 1]
        data == IF ~next THEN st.data
                ELSE IF new_data.negative THEN PlusTwoTo64(new_data)
                ELSE new_data
        data_len == IF next THEN LONG_BITS ELSE st.data_len
        palette_id == FromBits(MaskLow(data, bits))
    IN  [state    |-> state,
         data     |-> PyShiftRight(data, bits),
         data_len |-> data_len - bits,
         blocks   |-> Append(st.blocks, BlockFromCompound(palette[palette_id + 1]))]

\* one pass of the loop "while index < 4096" of Section.read_blocks;
\* st is [state, data, data_len, blocks]
ReadBlocksStep(st, palette, datas, bits) ==
    LET next == st.data_len < bits
        state == IF next THEN st.state + 1 ELSE st.state
        new_data == datas[state + 1]
        data == IF ~next THEN st.data
                ELSE IF new_data.negative THEN PlusTwoTo64(new_data)
                ELSE new_data
        data_len == IF next THEN LONG_BITS ELSE st.data_len
        palette_id == FromBits(MaskLow(data, bits))
    IN  [state    |-> state,
         data     |-> PyShiftRight(data, bits),
         data_len |-> data_len - bits,
         blocks   |-> Append(st.blocks, BlockFromCompound(palette[palette_id + 1]))]

RECURSIVE ReadBlocksLoop(_, _, _, _, _)
ReadBlocksLoop(palette, datas, bits, n, st) ==
    IF n = 0 THEN st
    ELSE IF n = 1 THEN ReadBlocksStep(st, palette, datas, bits)
    ELSE LET half == n \div 2
             left == ReadBlocksLoop(palette, datas, bits, half, st)
         IN  \* the test only makes TLC evaluate the first half first
             IF left.data_len >= 0
             THEN ReadBlocksLoop(palette, datas, bits, n - half, left)
             ELSE left

\* Section.read_blocks on a section of cells cells whose data words the
\* codec delivers signed or unsigned; "data = datas[0]" takes the first
\* word as it is delivered
read_blocks_delivered(section, cells, signed) ==
    LET palette == section.palette IN
    IF Len(palette) = 1
    THEN [i \in 1..cells |-> BlockFromCompound(palette[1])]
    ELSE LET datas == [i \in DOMAIN section.data |->
                          Delivered(section.data[i], signed)]
             bits == ReadBits(palette)
         IN  ReadBlocksLoop(palette, datas, bits, cells,
                 [state |-> 0, data |-> datas[1], data_len |-> LONG_BITS,
                  blocks |-> <<>>]).blocks

\* Section.read_blocks with the codec as section.py sets it up (_update_fmt:
\* unsigned words)
read_blocks(section, cells) == read_blocks_delivered(section, cells, FALSE)

\* Section.set_block: self.blocks[index] = block
set_block(blks, block, index) == [blks EXCEPT ![index + 1] = block]

(***************************************************************************)
(* Coordinate mapper (pyblock/tools.py).  Python's // and % floor, as      *)
(* \div and % of TLA+ do for a positive divisor.                           *)
(***************************************************************************)
REGION_SIZE == 512
CHUNK_SIZE == 16
CHUNKS_REGION == 32
MIN_SECTION == -4
MAX_SECTION == 19

\* mutant of block_to_region: int(x / REGION_SIZE), which truncates
block_to_region_Truncating(bx, bz) ==
    <<IF bx >= 0 THEN bx \div REGION_SIZE ELSE -((-bx) \div REGION_SIZE),
      IF bz >= 0 THEN bz \div REGION_SIZE ELSE -((-bz) \div REGION_SIZE)>>

\* tools.block_to_region
block_to_region(bx, bz) == <<bx \div REGION_SIZE, bz \div REGION_SIZE>>

\* tools.block_to_chunk
block_to_chunk(xr, zr) == <<xr \div CHUNK_SIZE, zr \div CHUNK_SIZE>>

\* tools.block_to_ylevel
block_to_ylevel(by) == by \div CHUNK_SIZE

\* mutant of block_index: x and z change places
block_index_XZSwapped(xs, ys, zs) == ys * 256 + xs * 16 + zs

\* tools.block_index
block_index(xs, ys, zs) == ys * 256 + zs * 16 + xs

\* tools.block_to_id_index: the 4-tuple region, chunk, ylevel, index
block_to_id_index(bx, by, bz) ==
    <<block_to_region(bx, bz),
      block_to_chunk(bx % REGION_SIZE, bz % REGION_SIZE),
      block_to_ylevel(by),
      block_index(bx % CHUNK_SIZE, by % CHUNK_SIZE, bz % CHUNK_SIZE)>>

(***************************************************************************)
(* bytes: a sequence of numbers 0..255                                     *)
(***************************************************************************)
\* bytes(n): n zero bytes
ZeroBytes(n) == [i \in 1..n |-> 0]

\* b[lo:hi] of Python: the bytes lo .. hi-1 (from 0), clipped to the length
Slice(b, lo, hi) ==
    LET top == IF hi < Len(b) THEN hi ELSE Len(b)
    IN  IF lo >= top THEN <<>> ELSE SubSeq(b, lo + 1, top)

\* n.to_bytes(length, "big"), for n below 2^31
to_bytes(n, length) ==
    [i \in 1..length |->
        IF length - i >= 4 THEN 0 ELSE (n \div (256 ^ (length - i))) % 256]

\* whether n.to_bytes(length, "big") raises OverflowError
to_bytes_overflows(n, length) == length < 4 /\ n >= 256 ^ length

\* int.from_bytes(b, byteorder="big")
RECURSIVE from_bytes(_)
from_bytes(b) ==
    IF b = <<>> THEN 0
    ELSE from_bytes(SubSeq(b, 1, Len(b) - 1)) * 256 + b[Len(b)]

(***************************************************************************)
(* Chunk framing (pyblock/chunk.py, Chunk.get_bytes) and its read back     *)
(* (pyblock/region.py, Region.chunk_data)                                  *)
(***************************************************************************)
SECTOR == 4096

\* Chunk.get_bytes from "Create the byte block" on; the argument is the
\* compressed chunk
get_bytes(compressed) ==
    LET framed == to_bytes(Len(compressed) + 1, 4) \o <<2>> \o compressed
    IN  framed \o ZeroBytes(SECTOR - (Len(framed) % SECTOR))

\* Region.chunk_data from the sector offset on, up to the decompression:
\* what is raised, and the bytes handed to zlib.decompress
chunk_payload(file, off) ==
    LET start == off * SECTOR
        length == from_bytes(Slice(file, start, start + 4))
        compression == file[start + 4 + 1]
    IN  IF compression = 1
        THEN [raised |-> "GZipChunkData", compressed_data |-> <<>>]
        ELSE [raised |-> "none",
              compressed_data |-> Slice(file, start + 5, start + 5 + length - 1)]

\* zlib.decompress: whether it accepts the bytes.  A zlib stream starts with
\* the byte 0x78 (deflate, 32K window); anything else fails the header check
zlib_accepts(compressed) == compressed # <<>> /\ compressed[1] = 120

(***************************************************************************)
(* Region (pyblock/region.py)                                              *)
(***************************************************************************)
\* Region.header_offset
header_offset(chunk_x, chunk_z) ==
    4 * ((chunk_x % 32) + (chunk_z % 32) * 32)

\* Region.chunk_location: (off, sectors)
chunk_location(file, chunk_x, chunk_z) ==
    LET b_off == header_offset(chunk_x, chunk_z)
    IN  <<from_bytes(Slice(file, b_off, b_off + 3)), file[b_off + 3 + 1]>>

\* Region.chunk_data: what it raises, what it returns (None, an NBTFile, or
\* nothing when it raises), whether zlib.decompress was called and on which
\* bytes
Region_chunk_data(file, chunk_x, chunk_z) ==
    LET off == chunk_location(file, chunk_x, chunk_z)
        read == chunk_payload(file, off[1])
    IN  IF off = <<0, 0>>
        THEN [raised |-> "none", returned |-> "None",
              decompressed |-> FALSE, compressed_data |-> <<>>]
        ELSE IF off[1] * SECTOR + 4 >= Len(file)
        THEN [raised |-> "IndexError", returned |-> "nothing",
              decompressed |-> FALSE, compressed_data |-> <<>>]
        ELSE IF read.raised # "none"
        THEN [raised |-> read.raised, returned |-> "nothing",
              decompressed |-> FALSE, compressed_data |-> <<>>]
        ELSE IF zlib_accepts(read.compressed_data)
        THEN [raised |-> "none", returned |-> "NBTFile",
              decompressed |-> TRUE, compressed_data |-> read.compressed_data]
        ELSE [raised |-> "zlib.error", returned |-> "nothing",
              decompressed |-> TRUE, compressed_data |-> read.compressed_data]

\* Region.copy_chunk: it raises ValueError when chunk_data gave None (or an
\* empty compound); otherwise it builds a Chunk in the local rchunk and falls
\* off the end of the function, which returns None
Region_copy_chunk(file, chunk_x, chunk_z) ==
    LET nbt_data == Region_chunk_data(file, chunk_x, chunk_z)
    IN  IF nbt_data.raised # "none" THEN nbt_data
        ELSE IF nbt_data.returned = "None"
        THEN [nbt_data EXCEPT !.raised = "ValueError", !.returned = "nothing"]
        ELSE [nbt_data EXCEPT !.returned = "None"]

\* the value 0 that stands for "no chunk" in an update map; the other
\* values are [bytes |-> the chunk's bytes]
Zero == [int |-> 0]

\* math.ceil(n / 4096)
CeilSectors(n) == (n + SECTOR - 1) \div SECTOR

\* the locals of Region.write before the loop
WriteStart ==
    [locations_header |-> <<>>, chunk_bytes |-> <<>>, sector_offset |-> 2,
     raised |-> "none"]

\* mutant of CopiedBytes: the copy starts one sector late
CopiedBytes_OneSectorLate(file, off, sectors) ==
    Slice(file, (off + 1) * SECTOR, (off + 1) * SECTOR + sectors * SECTOR)

\* self.data[start:end] of an unchanged chunk
CopiedBytes(file, off, sectors) ==
    Slice(file, off * SECTOR, off * SECTOR + sectors * SECTOR)

\* one pass of the loops of Region.write, for the chunk of coordinates
\* chunk_coord; st holds the locals
WriteStep(st, file, update, chunk_coord) ==
    LET loc == chunk_location(file, chunk_coord[1], chunk_coord[2])
        off == loc[1]
        updated == chunk_coord \in DOMAIN update
        to_add == update[chunk_coord]
        sectors ==
            IF ~updated
            THEN IF loc # <<0, 0>> THEN loc[2] ELSE 0
            ELSE IF to_add # Zero THEN CeilSectors(Len(to_add.bytes)) ELSE 0
        added ==
            IF ~updated
            THEN IF loc # <<0, 0>> THEN CopiedBytes(file, off, loc[2]) ELSE <<>>
            ELSE IF to_add # Zero THEN to_add.bytes ELSE <<>>
        overflow ==
            /\ sectors # 0
            /\ \/ to_bytes_overflows(st.sector_offset, 3)
               \/ to_bytes_overflows(sectors, 1)
    IN  IF st.raised # "none" THEN st
        ELSE IF overflow THEN [st EXCEPT !.raised = "OverflowError"]
        ELSE [locations_header |->
                  st.locations_header \o
                      (IF sectors = 0 THEN ZeroBytes(4)
                       ELSE to_bytes(st.sector_offset, 3) \o to_bytes(sectors, 1)),
              chunk_bytes   |-> st.chunk_bytes \o added,
              sector_offset |-> st.sector_offset + sectors,
              raised        |-> "none"]

\* mutant of LoopCoord: the loops are nested the other way round
LoopCoord_XOuter(i) == <<i \div 32, i % 32>>

\* the chunk of pass i (from 0) of "for chunk_z in range(32): for chunk_x
\* in range(32)"
LoopCoord(i) == <<i % 32, i \div 32>>

\* the passes lo..hi of the loops, in order
RECURSIVE WriteLoop(_, _, _, _, _)
WriteLoop(file, update, lo, hi, st) ==
    IF lo > hi THEN st
    ELSE IF lo = hi THEN WriteStep(st, file, update, LoopCoord(lo))
    ELSE LET mid == (lo + hi) \div 2
             left == WriteLoop(file, update, lo, mid, st)
         IN  \* the test only makes TLC evaluate the first half first
             IF left.sector_offset >= 0
             THEN WriteLoop(file, update, mid + 1, hi, left)
             ELSE left

\* mutant of LengthAsserted: no assertion
LengthAsserted_Never(final) == TRUE

\* assert len(final) % 4096 == 0
LengthAsserted(final) == Len(final) % SECTOR = 0

\* Region.write up to the open(): what is raised, and the bytes to write
write(file, update) ==
    LET st == WriteLoop(file, update, 0, 32 * 32 - 1, WriteStart)
        timestamps == ZeroBytes(SECTOR)
        final == st.locations_header \o timestamps \o st.chunk_bytes
    IN  IF Len(file) < SECTOR THEN [raised |-> "IndexError", final |-> <<>>]
        ELSE IF st.raised # "none" THEN [raised |-> st.raised, final |-> <<>>]
        ELSE IF ~LengthAsserted(final)
             THEN [raised |-> "AssertionError", final |-> <<>>]
        ELSE [raised |-> "none", final |-> final]

(***************************************************************************)
(* Editor (pyblock/editor.py), with the Section and Chunk objects it       *)
(* holds.  The disk is modelled chunk by chunk as the NBT that the chunk's *)
(* bytes decode to; the bytes themselves are the subject of SpecChunk and  *)
(* SpecRegion.  The sections of the Editor's world have EditorCells cells. *)
(***************************************************************************)
EditorCells == 16

\* Section(ylevel, nbt_section): Section.__init__
Section(ylevel, section) ==
    [ylevel |-> ylevel, nbt_section |-> section,
     blocks |-> read_blocks(section, EditorCells)]

\* Section.get_block
Section_get_block(section, index) == section.blocks[index + 1]

\* Section.set_block on a Section object
Section_set_block(section, block, index) ==
    [section EXCEPT !.blocks = set_block(@, block, index)]

\* mutant of Section_get_nbt: the new section gets new biomes
Section_get_nbt_NewBiomes(section) ==
    get_nbt(section.ylevel, 0, section.blocks)

\* Section.get_nbt on a Section object
Section_get_nbt(section) ==
    get_nbt(section.ylevel, section.nbt_section.biomes, section.blocks)

\* the keys of a dict that was filled in the order of seq: the distinct
\* elements of seq in the order of their first occurrence
RECURSIVE KeysInOrder(_, _)
KeysInOrder(seq, acc) ==
    IF seq = <<>> THEN acc
    ELSE KeysInOrder(Tail(seq),
             IF \E i \in DOMAIN acc : acc[i] = Head(seq) THEN acc
             ELSE Append(acc, Head(seq)))

\* Chunk(nbt_data): Chunk.__init__.  The NBT of a chunk is the record of its
\* top-level tags.  The dict self.sections is the mapping sections together
\* with its keys in insertion order; a later section of the same Y replaces
\* the earlier one.  (Every section compound of the model has tags, so that
\* "if section" is true.)
Chunk(nbt_data) ==
    [nbt_data |-> nbt_data,
     version |-> nbt_data.DataVersion,
     x |-> nbt_data.xPos,
     z |-> nbt_data.zPos,
     keys |-> KeysInOrder([i \in DOMAIN nbt_data.sections |->
                               nbt_data.sections[i].Y], <<>>),
     sections |->
         [y \in {nbt_data.sections[i].Y : i \in DOMAIN nbt_data.sections} |->
             nbt_data.sections[
                 CHOOSE i \in DOMAIN nbt_data.sections :
                     /\ nbt_data.sections[i].Y = y
                     /\ \A j \in DOMAIN nbt_data.sections :
                            nbt_data.sections[j].Y = y => j <= i]]]

\* mutant of Chunk_get_section: the section is looked up before the range
\* is tested
Chunk_get_section_LookupFirst(chunk, y) ==
    IF y \notin DOMAIN chunk.sections
    THEN [raised |-> "KeyError"]
    ELSE IF y < MIN_SECTION \/ y > MAX_SECTION
    THEN [raised |-> "OutOfBoundsCoordinates"]
    ELSE IF "palette" \notin DOMAIN chunk.sections[y]
    THEN [raised |-> "KeyError"]
    ELSE [raised |-> "none", section |-> Section(y, chunk.sections[y])]

\* Chunk.get_section: what it raises and, when it raises nothing, the
\* Section it returns.  self.sections[y] raises KeyError for a missing key,
\* and so does Section.read_blocks, which Section.__init__ calls, on a
\* compound without block states.
Chunk_get_section(chunk, y) ==
    IF y < MIN_SECTION \/ y > MAX_SECTION
    THEN [raised |-> "OutOfBoundsCoordinates"]
    ELSE IF y \notin DOMAIN chunk.sections
    THEN [raised |-> "KeyError"]
    ELSE IF "palette" \notin DOMAIN chunk.sections[y]
    THEN [raised |-> "KeyError"]
    ELSE [raised |-> "none", section |-> Section(y, chunk.sections[y])]

\* Chunk.set_section
Chunk_set_section(chunk, ylevel, section) ==
    [chunk EXCEPT
        !.sections = (ylevel :> section) @@ @,
        !.keys = IF ylevel \in DOMAIN chunk.sections THEN @
                 ELSE Append(@, ylevel)]

\* the tags Chunk.get_nbt takes over from self.nbt_data as they are
CopiedTags ==
    {"LastUpdate", "Heightmaps", "fluid_ticks", "block_ticks",
     "InhabitedTime", "PostProcessing", "structures"}

\* Chunk.get_nbt: what it raises (self.nbt_data[...] raises KeyError for a
\* missing tag) and the root it returns: DataVersion, xPos and zPos from the
\* object, Status "full", the copied tags, the block entities followed by
\* entities_to_update, and every section of self.sections in the order of
\* the dict
Chunk_get_nbt(chunk, entities_to_update) ==
    LET old == chunk.nbt_data
    IN  IF ~((CopiedTags \cup {"block_entities"}) \subseteq DOMAIN old)
        THEN [raised |-> "KeyError"]
        ELSE [raised |-> "none",
              nbt |->
                  [DataVersion |-> chunk.version,
                   xPos |-> chunk.x,
                   zPos |-> chunk.z,
                   Status |-> "full",
                   LastUpdate |-> old.LastUpdate,
                   Heightmaps |-> old.Heightmaps,
                   fluid_ticks |-> old.fluid_ticks,
                   block_ticks |-> old.block_ticks,
                   InhabitedTime |-> old.InhabitedTime,
                   PostProcessing |-> old.PostProcessing,
                   structures |-> old.structures,
                   block_entities |-> old.block_entities \o entities_to_update,
                   sections |-> [i \in DOMAIN chunk.keys |->
                                    chunk.sections[chunk.keys[i]]]]]

\* Region(path, region_coord).read_chunk(chunk_coord): the chunk decoded
\* from the region file; it is not found when the region has no file or the
\* file has no such chunk
read_chunk(files, region_coord, chunk_coord) ==
    IF <<region_coord, chunk_coord>> \notin DOMAIN files
    THEN [raised |-> "NotFound"]
    ELSE [raised |-> "none",
          chunk |-> Chunk(files[<<region_coord, chunk_coord>>])]

\* Region(path, region_coord).get_chunk(chunk_coord): likewise
get_chunk(files, region_coord, chunk_coord) ==
    IF <<region_coord, chunk_coord>> \notin DOMAIN files
    THEN [raised |-> "NotFound"]
    ELSE [raised |-> "none",
          chunk |-> Chunk(files[<<region_coord, chunk_coord>>])]

\* mutant of Editor_append: the list of the section is started anew
Editor_append_Replacing(map, section_id, change) ==
    IF \E i \in DOMAIN map : map[i].section_id = section_id
    THEN [i \in DOMAIN map |->
             IF map[i].section_id = section_id
             THEN [map[i] EXCEPT !.updates = <<change>>]
             ELSE map[i]]
    ELSE Append(map, [section_id |-> section_id, updates |-> <<change>>])

\* mutant of Editor_append: the change goes in front of the list
Editor_append_InFront(map, section_id, change) ==
    IF \E i \in DOMAIN map : map[i].section_id = section_id
    THEN [i \in DOMAIN map |->
             IF map[i].section_id = section_id
             THEN [map[i] EXCEPT !.updates = <<change>> \o @]
             ELSE map[i]]
    ELSE Append(map, [section_id |-> section_id, updates |-> <<change>>])

\* the "if section_id in self.blocks_map" of Editor.set_block; the dict is
\* the sequence of its items in insertion order
Editor_append(map, section_id, change) ==
    IF \E i \in DOMAIN map : map[i].section_id = section_id
    THEN [i \in DOMAIN map |->
             IF map[i].section_id = section_id
             THEN [map[i] EXCEPT !.updates = Append(@, change)]
             ELSE map[i]]
    ELSE Append(map, [section_id |-> section_id, updates |-> <<change>>])

\* Editor.get_section: what it raises, the Section it returns, and
\* self.chunks after the call.  The chunk is stored in self.chunks before
\* chunk.get_section is called.
Editor_get_section(cache, files, section_id) ==
    LET chunk_id == <<section_id[1], section_id[2]>>
        cached == chunk_id \in DOMAIN cache
        read == read_chunk(files, section_id[1], section_id[2])
    IN  IF ~cached /\ read.raised # "none"
        THEN [raised |-> read.raised, chunks |-> cache]
        ELSE LET chunk == IF cached THEN cache[chunk_id] ELSE read.chunk
                 after == IF cached THEN cache ELSE (chunk_id :> chunk) @@ cache
                 got == Chunk_get_section(chunk, section_id[3])
             IN  IF got.raised # "none"
                 THEN [raised |-> got.raised, chunks |-> after]
                 ELSE [raised |-> "none", section |-> got.section,
                       chunks |-> after]

\* "for update in updates: self.write_sections[section_id].set_block(*update)"
RECURSIVE ApplyUpdates(_, _)
ApplyUpdates(section, updates) ==
    IF updates = <<>> THEN section
    ELSE ApplyUpdates(
             Section_set_block(section, Head(updates)[1], Head(updates)[2]),
             Tail(updates))

\* the first loop of Editor.done over the items i.. of self.blocks_map; st
\* holds self.write_sections and self.chunks, and what the loop raised
RECURSIVE DoneSections(_, _, _, _)
DoneSections(map, files, i, st) ==
    IF i > Len(map) THEN st
    ELSE LET section_id == map[i].section_id
             cached == section_id \in DOMAIN st.write_sections
             got == Editor_get_section(st.chunks, files, section_id)
         IN  IF ~cached /\ got.raised # "none"
             THEN [st EXCEPT !.raised = got.raised, !.chunks = got.chunks]
             ELSE LET section == IF cached THEN st.write_sections[section_id]
                                 ELSE got.section
                  IN  DoneSections(map, files, i + 1,
                          [st EXCEPT
                              !.write_sections =
                                  (section_id :> ApplyUpdates(section, map[i].updates))
                                      @@ @,
                              !.chunks = IF cached THEN @ ELSE got.chunks])

\* "if key in self.entities: entities_to_update = self.entities[key]" of
\* Editor.done, else the empty list
EntitiesToUpdate(ents, key) ==
    LET items == SelectSeq(ents, LAMBDA item : item.key = key)
    IN  [i \in DOMAIN items |-> items[i].entity]

\* the second loop of Editor.done for one chunk of one region: the chunk is
\* read again, gets the sections of its section ids of self.blocks_map, and
\* is encoded with the entities of self.entities under its key
DoneChunk(map, files, written, ents, region_coord, chunk_coord) ==
    LET order == KeysInOrder(
                     SelectSeq([i \in DOMAIN map |-> map[i].section_id],
                               LAMBDA id : /\ id[1] = region_coord
                                           /\ id[2] = chunk_coord),
                     <<>>)
        read == get_chunk(files, region_coord, chunk_coord)
    IN  IF read.raised # "none" THEN [raised |-> read.raised]
        ELSE LET RECURSIVE SetSections(_, _)
                 SetSections(chunk, i) ==
                     IF i > Len(order) THEN chunk
                     ELSE SetSections(
                              Chunk_set_section(chunk, order[i][3],
                                  Section_get_nbt(written[order[i]])),
                              i + 1)
             IN  Chunk_get_nbt(SetSections(read.chunk, 1),
                               EntitiesToUpdate(ents, <<region_coord, chunk_coord>>))

\* mutant of RegionWritten: every chunk is stored as soon as it is encoded
RegionWritten_ChunkByChunk(files, chunk_coords, updated_chunks) ==
    [id \in DOMAIN files |->
        IF \E j \in DOMAIN chunk_coords :
               /\ chunk_coords[j] = id
               /\ \A k \in 1..j : updated_chunks[k].raised = "none"
        THEN updated_chunks[
                 CHOOSE j \in DOMAIN chunk_coords : chunk_coords[j] = id].nbt
        ELSE files[id]]

\* the files after the chunks chunk_coords of one region were handled in
\* the second loop of Editor.done: region.write(updated_chunks) is reached
\* when no chunk raised, and stores all of them
RegionWritten(files, chunk_coords, updated_chunks) ==
    IF \E j \in DOMAIN chunk_coords : updated_chunks[j].raised # "none"
    THEN files
    ELSE [id \in DOMAIN files |->
             IF \E j \in DOMAIN chunk_coords : chunk_coords[j] = id
             THEN updated_chunks[
                      CHOOSE j \in DOMAIN chunk_coords : chunk_coords[j] = id].nbt
             ELSE files[id]]

\* the second loop of Editor.done for the region coords[i] and those after
\* it: the chunks of the region are read and encoded one after the other,
\* then Region.write stores them; out holds the files and what was raised
RECURSIVE DoneRegions(_, _, _, _, _, _)
DoneRegions(map, written, ents, coords, i, out) ==
    IF i > Len(coords) THEN out
    ELSE LET region_coord == coords[i]
             chunk_coords ==
                 KeysInOrder(
                     SelectSeq([j \in DOMAIN map |->
                                   <<map[j].section_id[1], map[j].section_id[2]>>],
                               LAMBDA id : id[1] = region_coord),
                     <<>>)
             updated_chunks ==
                 [j \in DOMAIN chunk_coords |->
                     DoneChunk(map, out.world, written, ents,
                               region_coord, chunk_coords[j][2])]
             failed == {j \in DOMAIN chunk_coords :
                           updated_chunks[j].raised # "none"}
             after == [out EXCEPT !.world =
                          RegionWritten(@, chunk_coords, updated_chunks)]
         IN  IF failed # {}
             THEN [after EXCEPT
                      !.raised = updated_chunks[
                          CHOOSE j \in failed : \A k \in failed : j <= k].raised]
             ELSE DoneRegions(map, written, ents, coords, i + 1, after)

\* Editor.done: what it raises, and self.write_sections, self.chunks and the
\* files after it
Editor_done(map, files, st) ==
    LET regions == KeysInOrder(
                       [i \in DOMAIN map |-> map[i].section_id[1]], <<>>)
        Regions(first) ==
            IF first.raised # "none"
            THEN [raised |-> first.raised,
                  write_sections |-> first.write_sections,
                  chunks |-> first.chunks,
                  world |-> files]
            ELSE CHOOSE result \in
                     {[raised |-> second.raised,
                       write_sections |-> first.write_sections,
                       chunks |-> first.chunks,
                       world |-> second.world] :
                         second \in {DoneRegions(map, first.write_sections,
                                         st.entities, regions, 1,
                                         [world |-> files, raised |-> "none"])}} :
                     TRUE
    IN  CHOOSE result \in
            {Regions(first) :
                first \in {DoneSections(map, files, 1,
                               [write_sections |-> st.write_sections,
                                chunks |-> st.chunks, raised |-> "none"])}} : TRUE

(***************************************************************************)
(* Editor.copy_blocks.  A block entity is the record of its tags id, x, y  *)
(* and z.  source_world is the Editor itself (world_source is None).       *)
(***************************************************************************)
\* Editor.set_block: self.blocks_map after it
Editor_set_block(map, block, pos) ==
    LET id_index == block_to_id_index(pos[1], pos[2], pos[3])
    IN  Editor_append(map, <<id_index[1], id_index[2], id_index[3]>>,
                      <<block, id_index[4]>>)

\* Editor.get_block: what it raises, the Block it returns, and
\* self.sections and self.chunks after it
Editor_get_block(st, files, pos) ==
    LET id_index == block_to_id_index(pos[1], pos[2], pos[3])
        section_id == <<id_index[1], id_index[2], id_index[3]>>
        cached == section_id \in DOMAIN st.sections
        got == Editor_get_section(st.chunks, files, section_id)
    IN  IF cached
        THEN [raised |-> "none",
              block |-> Section_get_block(st.sections[section_id], id_index[4]),
              sections |-> st.sections, chunks |-> st.chunks]
        ELSE IF got.raised # "none"
        THEN [raised |-> got.raised, sections |-> st.sections,
              chunks |-> got.chunks]
        ELSE [raised |-> "none",
              block |-> Section_get_block(got.section, id_index[4]),
              sections |-> (section_id :> got.section) @@ st.sections,
              chunks |-> got.chunks]

\* the sum and the difference of two coordinate triples
Plus(a, b) == <<a[1] + b[1], a[2] + b[2], a[3] + b[3]>>

Minus(a, b) == <<a[1] - b[1], a[2] - b[2], a[3] - b[3]>>

\* (dx, dy, dz) of the n-th pass of "for dx in range(wx): for dy in
\* range(wy): for dz in range(wz)"
Offset(size, n) ==
    <<(n - 1) \div (size[2] * size[3]),
      ((n - 1) \div size[3]) % size[2],
      (n - 1) % size[3]>>

\* "for repetition in rep: self.set_block(block, tx + dx + rx, ...)"
RECURSIVE SetRepetitions(_, _, _, _, _)
SetRepetitions(map, block, at, rep, i) ==
    IF i > Len(rep) THEN map
    ELSE SetRepetitions(Editor_set_block(map, block, Plus(at, rep[i])),
                        block, at, rep, i + 1)

\* the block loop of copy_blocks from its n-th pass on; st holds
\* self.blocks_map, self.sections, self.chunks and what was raised
RECURSIVE CopyCells(_, _, _, _)
CopyCells(args, files, n, st) ==
    IF n > args.size[1] * args.size[2] * args.size[3] THEN st
    ELSE LET d == Offset(args.size, n)
             got == Editor_get_block(st, files, Plus(args.source, d))
         IN  IF got.raised # "none"
             THEN [st EXCEPT !.raised = got.raised, !.chunks = got.chunks]
             ELSE CopyCells(args, files, n + 1,
                      [st EXCEPT
                          !.sections = got.sections,
                          !.chunks = got.chunks,
                          !.blocks_map =
                              IF args.rep # <<>>
                              THEN SetRepetitions(@, got.block,
                                       Plus(args.dest, d), args.rep, 1)
                              ELSE Editor_set_block(@, got.block,
                                       Plus(args.dest, d))])

\* "if x >= sx and x < sx + wx: if y >= sy ...: if z >= sz ..."
Inside(entity, source, size) ==
    /\ entity.x >= source[1] /\ entity.x < source[1] + size[1]
    /\ entity.y >= source[2] /\ entity.y < source[2] + size[2]
    /\ entity.z >= source[3] /\ entity.z < source[3] + size[3]

\* an entity with x, y and z moved
Shifted(entity, by) ==
    [entity EXCEPT !.x = @ + by[1], !.y = @ + by[2], !.z = @ + by[3]]

\* key = (region_coord, chunk_coord) of the coordinates of an entity
EntityKey(entity) ==
    LET id_index == block_to_id_index(entity.x, entity.y, entity.z)
    IN  <<id_index[1], id_index[2]>>

\* the item of self.entities for an entity
Item(entity) == [key |-> EntityKey(entity), entity |-> entity]

\* the entity loop of copy_blocks over one chunk of source_world.chunks: an
\* entity inside the source cuboid gets the shifted coordinates, in the
\* chunk's own NBT, and is appended to self.entities
ScanChunk(chunk, args) ==
    LET shift == Minus(args.dest, args.source)
        old == chunk.nbt_data.block_entities
        found == SelectSeq(old, LAMBDA entity : Inside(entity, args.source, args.size))
    IN  [chunk |->
             [chunk EXCEPT !.nbt_data.block_entities =
                 [i \in DOMAIN old |->
                     IF Inside(old[i], args.source, args.size)
                     THEN Shifted(old[i], shift)
                     ELSE old[i]]],
         items |-> [i \in DOMAIN found |-> Item(Shifted(found[i], shift))]]

\* the keys of self.chunks as a sequence.  (The model keeps self.chunks as
\* a function; the order only decides the order in which entities of
\* different source chunks are appended.)
RECURSIVE ChunkIds(_)
ChunkIds(ids) ==
    IF ids = {} THEN <<>>
    ELSE LET id == CHOOSE a \in ids :
                       \A b \in ids :
                           \/ a[1][1] < b[1][1]
                           \/ a[1][1] = b[1][1] /\ a[1][2] < b[1][2]
                           \/ a[1] = b[1] /\ a[2][1] < b[2][1]
                           \/ a[1] = b[1] /\ a[2][1] = b[2][1] /\ a[2][2] <= b[2][2]
         IN  <<id>> \o ChunkIds(ids \ {id})

\* "for chunk_coord, chunk in source_world.chunks.items()": self.chunks and
\* self.entities after it, and KeyError when a chunk has no block_entities
RECURSIVE ScanChunks(_, _, _, _)
ScanChunks(args, ids, i, st) ==
    IF i > Len(ids) THEN st
    ELSE IF "block_entities" \notin DOMAIN st.chunks[ids[i]].nbt_data
    THEN [st EXCEPT !.raised = "KeyError"]
    ELSE LET scan == ScanChunk(st.chunks[ids[i]], args)
         IN  ScanChunks(args, ids, i + 1,
                 [st EXCEPT !.chunks = (ids[i] :> scan.chunk) @@ @,
                            !.entities = @ \o scan.items])

\* the items of a dict of lists in the order of "for key, entities in
\* copy_entities.items(): for orig_entity in entities"
ItemsByKey(items) ==
    LET keys == KeysInOrder([i \in DOMAIN items |-> items[i].key], <<>>)
        RECURSIVE Lists(_)
        Lists(k) ==
            IF k > Len(keys) THEN <<>>
            ELSE SelectSeq(items, LAMBDA item : item.key = keys[k]) \o Lists(k + 1)
    IN  Lists(1)

\* "if rep:" of copy_blocks on the items of copy_entities from the i-th on:
\* the original entity is appended under key, then one copy for every
\* repetition under the key of its coordinates.  The name key is bound by
\* the outer loop at the start of a list and again by every repetition.
RECURSIVE RepeatEntities(_, _, _, _, _)
RepeatEntities(items, rep, i, key, out) ==
    IF i > Len(items) THEN out
    ELSE LET orig_entity == items[i].entity
             first == (i = 1) \/ (items[i].key # items[i - 1].key)
             copies == [j \in DOMAIN rep |->
                           Item(Shifted(orig_entity, rep[j]))]
         IN  RepeatEntities(items, rep, i + 1, copies[Len(rep)].key,
                 (out \o <<[key |-> IF first THEN items[i].key ELSE key,
                            entity |-> orig_entity]>>) \o copies)

\* Editor.copy_blocks(source, dest, size, rep): what it raises, and
\* self.blocks_map, self.sections, self.chunks and self.entities after it
Editor_copy_blocks(args, files, st) ==
    LET Entities(copied) ==
            LET scanned == ScanChunks(args, ChunkIds(DOMAIN copied.chunks), 1,
                               [copied EXCEPT !.entities = <<>>])
            IN  IF copied.raised # "none" THEN copied
                ELSE IF scanned.raised # "none" \/ args.rep = <<>> THEN scanned
                ELSE [scanned EXCEPT !.entities =
                         RepeatEntities(ItemsByKey(@), args.rep, 1, <<>>, <<>>)]
    IN  CHOOSE result \in
            {Entities(copied) :
                copied \in {CopyCells(args, files, 1,
                                [blocks_map |-> st.blocks_map,
                                 sections |-> st.sections,
                                 chunks |-> st.chunks,
                                 entities |-> st.entities,
                                 raised |-> "none"])}} : TRUE

(***************************************************************************)
(* SpecSection: a Section is edited with set_block, packed with get_nbt,   *)
(* and a second Section is built from the compound (read_blocks).          *)
(***************************************************************************)
\* the palette sizes of the sections the scenario starts from
PaletteSizes == {1, 2, 3, 4, 5, 15, 16, 17, 32, 33, 255, 256}

\* a section whose cell k holds the Block of identifier k mod n
PatternSection(n) == [k \in 1..SECTION_CELLS |-> Block((k - 1) % n, <<>>)]

\* the Blocks set_block writes: one Block with two properties, in both
\* insertion orders
EditBlocks == {Block(3, <<<<1, 1>>, <<2, 1>>>>), Block(3, <<<<2, 1>>, <<1, 1>>>>)}

\* the cell set_block writes: the 13th
EditIndices == {12}

RdIdle ==
    /\ rd_data = <<>>
    /\ rd_coord = <<0, 0>>
    /\ rd_result = [raised |-> "none", returned |-> "None",
                    decompressed |-> FALSE, compressed_data |-> <<>>]
    /\ rd_pc = "idle"

CkIdle ==
    /\ ck_chunk = <<>>
    /\ ck_arg = 0
    /\ ck_result = [raised |-> "none"]
    /\ ck_pc = "new"

BkIdle ==
    /\ bk_a = Block(0, <<>>)
    /\ bk_b = Block(0, <<>>)
    /\ bk_set = <<>>
    /\ bk_eq = TRUE
    /\ bk_pc = "new"

PlIdle ==
    /\ pl_blocks = <<>>
    /\ pl_other = <<>>
    /\ pl_nbt = NoValue
    /\ pl_other_nbt = NoValue
    /\ pl_signed = FALSE
    /\ pl_read = <<>>
    /\ pl_pc = "idle"

EdIdle ==
    /\ world = <<>>
    /\ blocks_map = <<>>
    /\ sections = <<>>
    /\ chunks = <<>>
    /\ write_sections = <<>>
    /\ returned = Block(0, <<>>)
    /\ entities = <<>>
    /\ calls = <<>>

ChunkIdle ==
    /\ chunk_data = <<>>
    /\ bytes_data = <<>>
    /\ compressed_data = <<>>
    /\ cpc = "idle"

RegIdle ==
    /\ disk = <<>>
    /\ self_data = <<>>
    /\ chunks_to_update = <<>>
    /\ rpc = "idle"

ToolsIdle ==
    /\ in_x = 0 /\ in_y = 0 /\ in_z = 0
    /\ out_region = <<0, 0>> /\ out_chunk = <<0, 0>> /\ out_ylevel = 0
    /\ out_id_index = <<<<0, 0>>, <<0, 0>>, 0, 0>>
    /\ called = {}

SecIdle ==
    /\ blocks = <<>>
    /\ nbt_section = NoValue
    /\ states = NoValue
    /\ read_back = NoValue
    /\ spc = "idle"

SecInit ==
    /\ blocks \in {PatternSection(n) : n \in PaletteSizes}
    /\ nbt_section = NoValue
    /\ states = NoValue
    /\ read_back = NoValue
    /\ spc = "edit"
    /\ ToolsIdle
    /\ ChunkIdle
    /\ RegIdle
    /\ EdIdle
    /\ RdIdle
    /\ CkIdle
    /\ BkIdle
    /\ PlIdle

SectionSetBlock ==
    /\ spc = "edit"
    /\ \E block \in EditBlocks, index \in EditIndices :
           blocks' = set_block(blocks, block, index)
    /\ UNCHANGED <<nbt_section, states, read_back, spc>>
    /\ UNCHANGED notSec

SectionGetNbt ==
    /\ spc = "edit"
    /\ LET loc == get_nbt_locals(blocks)
       IN  /\ nbt_section' = section_compound(0, 0, loc)
           /\ states' = loc.new_data
    /\ spc' = "packed"
    /\ UNCHANGED <<blocks, read_back>>
    /\ UNCHANGED notSec

SectionReadBlocks ==
    /\ spc = "packed"
    /\ read_back' = read_blocks(nbt_section, SECTION_CELLS)
    /\ spc' = "read"
    /\ UNCHANGED <<blocks, nbt_section, states>>
    /\ UNCHANGED notSec

SecNext == SectionSetBlock \/ SectionGetNbt \/ SectionReadBlocks

(***************************************************************************)
(* SpecTools: the three floor divisions of the coordinate mapper, applied  *)
(* to block coordinates on both sides of zero.                             *)
(***************************************************************************)
\* the coordinates reach from -MaxCoord to MaxCoord
MaxCoord == 1030

ToolsInit ==
    /\ in_x \in -MaxCoord..MaxCoord
    /\ in_z \in {in_x, 0}
    /\ in_y \in {in_x, -64, -1}
    /\ out_region = <<0, 0>> /\ out_chunk = <<0, 0>> /\ out_ylevel = 0
    /\ out_id_index = <<<<0, 0>>, <<0, 0>>, 0, 0>>
    /\ called = {}
    /\ SecIdle
    /\ ChunkIdle
    /\ RegIdle
    /\ EdIdle
    /\ RdIdle
    /\ CkIdle
    /\ BkIdle
    /\ PlIdle

ToolsBlockToRegion ==
    /\ "block_to_region" \notin called
    /\ out_region' = block_to_region(in_x, in_z)
    /\ called' = called \cup {"block_to_region"}
    /\ UNCHANGED <<in_x, in_y, in_z, out_chunk, out_ylevel, out_id_index>>
    /\ UNCHANGED notTool

ToolsBlockToChunk ==
    /\ "block_to_chunk" \notin called
    /\ out_chunk' = block_to_chunk(in_x, in_z)
    /\ called' = called \cup {"block_to_chunk"}
    /\ UNCHANGED <<in_x, in_y, in_z, out_region, out_ylevel, out_id_index>>
    /\ UNCHANGED notTool

ToolsBlockToYlevel ==
    /\ "block_to_ylevel" \notin called
    /\ out_ylevel' = block_to_ylevel(in_y)
    /\ called' = called \cup {"block_to_ylevel"}
    /\ UNCHANGED <<in_x, in_y, in_z, out_region, out_chunk, out_id_index>>
    /\ UNCHANGED notTool

ToolsNext == ToolsBlockToRegion \/ ToolsBlockToChunk \/ ToolsBlockToYlevel

(***************************************************************************)
(* SpecLocator: tools.block_to_id_index applied to block coordinates on    *)
(* both sides of zero.                                                     *)
(***************************************************************************)
LocatorInit ==
    /\ in_x \in -MaxCoord..MaxCoord
    /\ in_z \in {in_x, 612, 0, -1}
    /\ in_y \in {in_x, 70, 0, -64}
    /\ out_region = <<0, 0>> /\ out_chunk = <<0, 0>> /\ out_ylevel = 0
    /\ out_id_index = <<<<0, 0>>, <<0, 0>>, 0, 0>>
    /\ called = {}
    /\ SecIdle
    /\ ChunkIdle
    /\ RegIdle
    /\ EdIdle
    /\ RdIdle
    /\ CkIdle
    /\ BkIdle
    /\ PlIdle

ToolsBlockToIdIndex ==
    /\ "block_to_id_index" \notin called
    /\ out_id_index' = block_to_id_index(in_x, in_y, in_z)
    /\ called' = called \cup {"block_to_id_index"}
    /\ UNCHANGED <<in_x, in_y, in_z, out_region, out_chunk, out_ylevel>>
    /\ UNCHANGED notTool

LocatorNext == ToolsBlockToIdIndex

(***************************************************************************)
(* The specifications                                                      *)
(***************************************************************************)
(***************************************************************************)
(* SpecChunk: a compressed chunk is framed by Chunk.get_bytes and the      *)
(* frame is read back as Region.chunk_data reads a chunk at a sector       *)
(* offset.                                                                 *)
(***************************************************************************)
\* the lengths of the compressed chunks: around 0 and around the lengths
\* whose frame ends on a sector boundary
PayloadLengths ==
    (0..5) \cup ((SECTOR - 7)..(SECTOR - 3)) \cup ((2 * SECTOR - 6)..(2 * SECTOR - 4))

PayloadFills == {1, 2, 255}

\* a compressed chunk of n bytes
Payload(n, fill) == [k \in 1..n |-> (fill + k) % 256]

ChunkInit ==
    /\ \E n \in PayloadLengths, fill \in PayloadFills :
           chunk_data = Payload(n, fill)
    /\ bytes_data = <<>>
    /\ compressed_data = <<>>
    /\ cpc = "new"
    /\ SecIdle
    /\ ToolsIdle
    /\ RegIdle
    /\ EdIdle
    /\ RdIdle
    /\ CkIdle
    /\ BkIdle
    /\ PlIdle

ChunkGetBytes ==
    /\ cpc = "new"
    /\ bytes_data' = get_bytes(chunk_data)
    /\ cpc' = "framed"
    /\ UNCHANGED <<chunk_data, compressed_data>>
    /\ UNCHANGED notChunk

ChunkReadBack ==
    /\ cpc = "framed"
    /\ compressed_data' = chunk_payload(bytes_data, 0).compressed_data
    /\ cpc' = "read"
    /\ UNCHANGED <<chunk_data, bytes_data>>
    /\ UNCHANGED notChunk

ChunkNext == ChunkGetBytes \/ ChunkReadBack

(***************************************************************************)
(* SpecRegion: a region file is read by Region.__init__ and rewritten by   *)
(* one Region.write.                                                       *)
(***************************************************************************)
\* a sector of chunk bytes
Sector(tag) == [k \in 1..SECTOR |-> tag]

\* the bytes of a region file: the location header made of the entries
\* (slot number -> (off, sectors)), the timestamp header and the bytes after
RegionFile(entries, rest) ==
    [k \in 1..SECTOR |->
        LET slot == (k - 1) \div 4
            pos == (k - 1) % 4
        IN  IF slot \in DOMAIN entries
            THEN (to_bytes(entries[slot][1], 3) \o to_bytes(entries[slot][2], 1))[pos + 1]
            ELSE 0]
    \o [k \in 1..SECTOR |-> 7]
    \o rest

Slot(chunk_x, chunk_z) == chunk_x + 32 * chunk_z

\* the region files on disk before the program runs
RegionFiles ==
    { \* no chunk
      RegionFile(<<>>, <<>>),
      \* the layout Region.write produces
      RegionFile((Slot(0, 0) :> <<2, 1>>) @@ (Slot(1, 0) :> <<3, 2>>)
                     @@ (Slot(31, 31) :> <<5, 1>>),
                 Sector(11) \o Sector(21) \o Sector(22) \o Sector(31)),
      \* chunks stored out of order
      RegionFile((Slot(0, 0) :> <<5, 1>>) @@ (Slot(1, 0) :> <<2, 2>>)
                     @@ (Slot(0, 1) :> <<4, 1>>),
                 Sector(21) \o Sector(22) \o Sector(41) \o Sector(11)),
      \* a sector no entry names
      RegionFile((Slot(1, 0) :> <<3, 1>>), Sector(99) \o Sector(21)),
      \* the last sectors cut in the middle of a sector
      RegionFile((Slot(0, 0) :> <<2, 1>>) @@ (Slot(31, 31) :> <<3, 2>>),
                 Sector(11) \o Sector(31) \o SubSeq(Sector(32), 1, SECTOR \div 2)),
      \* the last sector missing
      RegionFile((Slot(0, 0) :> <<3, 2>>) @@ (Slot(1, 0) :> <<2, 1>>),
                 Sector(21) \o Sector(11)),
      \* an entry with an offset and no sector
      RegionFile((Slot(0, 0) :> <<2, 0>>) @@ (Slot(1, 0) :> <<2, 1>>),
                 Sector(21)),
      \* a file shorter than the location header
      ZeroBytes(SECTOR \div 2) }

\* the chunks Region.write is called for
UpdateCoords == {<<0, 0>>, <<1, 0>>, <<31, 31>>}

\* the most chunks one Region.write updates
MaxUpdates == 2

\* the values of an update map: no chunk, or bytes of one sector, of two
\* sectors, and of half a sector
UpdateValues ==
    { Zero,
      [bytes |-> Sector(51)],
      [bytes |-> Sector(61) \o Sector(62)],
      [bytes |-> SubSeq(Sector(71), 1, SECTOR \div 2)] }

UpdateMaps ==
    UNION { [keys -> UpdateValues] :
            keys \in {c \in SUBSET UpdateCoords : Cardinality(c) <= MaxUpdates} }

RegionInit ==
    /\ disk \in RegionFiles
    /\ self_data = <<>>
    /\ chunks_to_update = <<>>
    /\ rpc = "closed"
    /\ SecIdle
    /\ ToolsIdle
    /\ ChunkIdle
    /\ EdIdle
    /\ RdIdle
    /\ CkIdle
    /\ BkIdle
    /\ PlIdle

\* Region.__init__: self.data = f.read()
RegionOpen ==
    /\ rpc = "closed"
    /\ self_data' = disk
    /\ rpc' = "open"
    /\ UNCHANGED <<disk, chunks_to_update>>
    /\ UNCHANGED notReg

\* Region.write(chunks_to_update)
RegionWrite ==
    /\ rpc = "open"
    /\ \E update \in UpdateMaps :
          LET result == write(self_data, update)
          IN  /\ chunks_to_update' = update
              /\ IF result.raised = "none"
                 THEN disk' = result.final /\ rpc' = "written"
                 ELSE disk' = disk /\ rpc' = "raised"
    /\ UNCHANGED self_data
    /\ UNCHANGED notReg

RegionNext == RegionOpen \/ RegionWrite

(***************************************************************************)
(* SpecRead: a region file holds one chunk, whose frame carries some       *)
(* compression id, next to slots that were never generated; chunks are     *)
(* read with Region.chunk_data and Region.copy_chunk.                      *)
(***************************************************************************)
\* the compression ids of the frames: none, gzip, zlib, uncompressed, LZ4,
\* custom, and two ids that no scheme has
CompressionIds == {0, 1, 2, 3, 4, 127, 200, 255}

\* the compressed chunks of the frames: the first byte is 0x78, as zlib
\* writes it, or 0x0A, as an uncompressed NBT file starts
StoredPayloads ==
    {<<first>> \o Payload(n, 7) : first \in {120, 10}, n \in 0..3}

\* the frame of a chunk with a given compression id
Frame(compression, payload) ==
    LET framed == to_bytes(Len(payload) + 1, 4) \o <<compression>> \o payload
    IN  framed \o ZeroBytes(SECTOR - Len(framed))

\* the chunks that are read: the stored one, and two that were never
\* generated
ReadCoords == {<<0, 0>>, <<1, 0>>, <<31, 31>>}

ReadInit ==
    /\ \E compression \in CompressionIds, payload \in StoredPayloads :
           rd_data = RegionFile((Slot(0, 0) :> <<2, 1>>), Frame(compression, payload))
    /\ rd_coord = <<0, 0>>
    /\ rd_result = [raised |-> "none", returned |-> "None",
                    decompressed |-> FALSE, compressed_data |-> <<>>]
    /\ rd_pc = "open"
    /\ SecIdle
    /\ ToolsIdle
    /\ ChunkIdle
    /\ RegIdle
    /\ EdIdle
    /\ CkIdle
    /\ BkIdle
    /\ PlIdle

\* Region.chunk_data(chunk_x, chunk_z)
RegionChunkData ==
    /\ rd_pc = "open"
    /\ \E coord \in ReadCoords :
           /\ rd_coord' = coord
           /\ rd_result' = Region_chunk_data(rd_data, coord[1], coord[2])
    /\ rd_pc' = "chunk_data"
    /\ UNCHANGED rd_data
    /\ UNCHANGED notRd

\* Region.copy_chunk(chunk_x, chunk_z)
RegionCopyChunk ==
    /\ rd_pc = "open"
    /\ \E coord \in ReadCoords :
           /\ rd_coord' = coord
           /\ rd_result' = Region_copy_chunk(rd_data, coord[1], coord[2])
    /\ rd_pc' = "copy_chunk"
    /\ UNCHANGED rd_data
    /\ UNCHANGED notRd

ReadNext == RegionChunkData \/ RegionCopyChunk

(***************************************************************************)
(* SpecEditor: one Editor on a world of three sections in two regions;     *)
(* the caller calls set_block, get_block and done in any order.            *)
(***************************************************************************)
\* the most calls made on the Editor
MaxCalls == 3

\* the Blocks on disk: stone, dirt, and air
Stone == Block(1, <<>>)
Dirt == Block(2, <<>>)
Air == Block(0, <<>>)

\* the Blocks the caller sets: a diamond block, and a block with a property
SetBlocks == {Block(5, <<>>), Block(7, <<<<1, 1>>>>)}

\* the coordinates the caller uses: two cells of one section, a cell of the
\* section above in the same chunk, and a cell of another region
Positions == {<<0, 0, 0>>, <<1, 0, 0>>, <<0, 16, 0>>, <<-1, 0, 0>>}

\* the NBT of a section of the world
WorldSection(y, cells) == get_nbt(y, 0, cells)

\* the NBT of a chunk as Minecraft 1.18 stores it: the tags Chunk reads,
\* and yPos and isLightOn besides
ChunkNbt(x, z, status, secs) ==
    [DataVersion |-> 2975, xPos |-> x, yPos |-> -4, zPos |-> z,
     Status |-> status, LastUpdate |-> 1000, InhabitedTime |-> 7,
     Heightmaps |-> <<64, 65>>, fluid_ticks |-> <<>>, block_ticks |-> <<3>>,
     PostProcessing |-> <<>>, structures |-> <<1>>, isLightOn |-> 1,
     block_entities |-> <<>>, sections |-> secs]

\* the chunks on disk before the Editor is made
InitialWorld ==
    (<<<<0, 0>>, <<0, 0>>>> :>
        ChunkNbt(0, 0, "full",
             <<WorldSection(0, [k \in 1..EditorCells |->
                                   IF k % 2 = 0 THEN Stone ELSE Dirt]),
               WorldSection(1, [k \in 1..EditorCells |-> Air])>>))
    @@
    (<<<<-1, 0>>, <<31, 0>>>> :>
        ChunkNbt(-1, 0, "full",
             <<WorldSection(0, [k \in 1..EditorCells |->
                                   IF k % 3 = 0 THEN Stone ELSE Dirt])>>))

\* Editor.__init__
EditorInit ==
    /\ world = InitialWorld
    /\ blocks_map = <<>>
    /\ sections = <<>>
    /\ chunks = <<>>
    /\ write_sections = <<>>
    /\ returned = Air
    /\ entities = <<>>
    /\ calls = <<>>
    /\ SecIdle
    /\ ToolsIdle
    /\ ChunkIdle
    /\ RegIdle
    /\ RdIdle
    /\ CkIdle
    /\ BkIdle
    /\ PlIdle

\* Editor.set_block(block, x, y, z) for a block and a position of the sets
SetBlock(setblocks, positions) ==
    /\ Len(calls) < MaxCalls
    /\ \E block \in setblocks, pos \in positions :
          LET id_index == block_to_id_index(pos[1], pos[2], pos[3])
              section_id == <<id_index[1], id_index[2], id_index[3]>>
              change == <<block, id_index[4]>>
          IN  /\ blocks_map' = Editor_append(blocks_map, section_id, change)
              /\ calls' = Append(calls, [op |-> "set_block", block |-> block,
                                         pos |-> pos, raised |-> "none"])
    /\ UNCHANGED <<world, sections, chunks, write_sections, returned, entities>>
    /\ UNCHANGED notEd

\* Editor.get_block(x, y, z) for a position of the set; when get_section
\* raises, self.sections stays as it is and nothing is returned
GetBlock(positions) ==
    /\ Len(calls) < MaxCalls
    /\ \E pos \in positions :
          LET id_index == block_to_id_index(pos[1], pos[2], pos[3])
              section_id == <<id_index[1], id_index[2], id_index[3]>>
              cached == section_id \in DOMAIN sections
              got == Editor_get_section(chunks, world, section_id)
              failed == ~cached /\ got.raised # "none"
          IN  /\ sections' = IF cached \/ failed THEN sections
                             ELSE (section_id :> got.section) @@ sections
              /\ chunks' = IF cached THEN chunks ELSE got.chunks
              /\ returned' = IF failed THEN returned
                             ELSE Section_get_block(sections'[section_id],
                                                    id_index[4])
              /\ calls' = Append(calls, [op |-> "get_block", block |-> Air,
                                         pos |-> pos,
                                         raised |-> IF failed THEN got.raised
                                                    ELSE "none"])
    /\ UNCHANGED <<world, blocks_map, write_sections, entities>>
    /\ UNCHANGED notEd

\* Editor.done()
Done ==
    /\ Len(calls) < MaxCalls
    /\ \E result \in {Editor_done(blocks_map, world,
                         [write_sections |-> write_sections, chunks |-> chunks,
                          entities |-> entities])} :
           /\ write_sections' = result.write_sections
           /\ chunks' = result.chunks
           /\ world' = result.world
           /\ calls' = Append(calls, [op |-> "done", block |-> Air,
                                      pos |-> <<0, 0, 0>>,
                                      raised |-> result.raised])
    /\ UNCHANGED <<blocks_map, sections, returned, entities>>
    /\ UNCHANGED notEd

EditorSetBlock == SetBlock(SetBlocks, Positions)

EditorGetBlock == GetBlock(Positions)

EditorDone == Done

EditorNext == EditorSetBlock \/ EditorGetBlock \/ EditorDone

(***************************************************************************)
(* SpecObject: a Chunk object is built from a decoded chunk; the caller    *)
(* calls get_section, set_section and get_nbt in any order.                *)
(***************************************************************************)
\* the levels the caller asks for: below the range, its ends, levels with
\* and without a section, above the range
Levels == {-5, -4, 0, 1, 2, 19, 20, 100}

\* the sections of the decoded chunks
StoneSection(y) ==
    WorldSection(y, [k \in 1..EditorCells |-> IF k % 2 = 0 THEN Stone ELSE Dirt])

AirSection(y) == WorldSection(y, [k \in 1..EditorCells |-> Air])

\* a sections-list entry without block states: a Y level and biomes only
BareSection(y) == [Y |-> y, biomes |-> 0]

\* the section lists of the decoded chunks: none; stone and air; stone and
\* the two sections Minecraft 1.18 stores outside the range of the blocks
\* (Y = -5 and Y = 20); stone and an entry without block states
SectionLists ==
    {<<>>,
     <<StoneSection(0), AirSection(1)>>,
     <<StoneSection(-5), StoneSection(0), StoneSection(20)>>,
     <<StoneSection(0), BareSection(1)>>}

\* a compound without one of its tags
WithoutTag(compound, tag) ==
    [t \in (DOMAIN compound) \ {tag} |-> compound[t]]

\* the decoded chunks: fully generated or not, and some written by a tool
\* that stores no PostProcessing tag
DecodedChunks ==
    {IF complete THEN ChunkNbt(3, -2, status, secs)
     ELSE WithoutTag(ChunkNbt(3, -2, status, secs), "PostProcessing") :
        status \in {"full", "features"},
        secs \in SectionLists,
        complete \in BOOLEAN}

\* the block entities handed to get_nbt
EntityLists == {<<>>, <<9>>}

\* Chunk(nbt_data)
ObjectInit ==
    /\ \E nbt_data \in DecodedChunks : ck_chunk = Chunk(nbt_data)
    /\ ck_arg = 0
    /\ ck_result = [raised |-> "none"]
    /\ ck_pc = "new"
    /\ SecIdle
    /\ ToolsIdle
    /\ ChunkIdle
    /\ RegIdle
    /\ RdIdle
    /\ EdIdle
    /\ BkIdle
    /\ PlIdle

\* Chunk.get_section(y)
ChunkGetSection ==
    /\ \E y \in Levels :
          /\ ck_arg' = y
          /\ ck_result' = Chunk_get_section(ck_chunk, y)
    /\ ck_pc' = "get_section"
    /\ UNCHANGED ck_chunk
    /\ UNCHANGED notCk

\* Chunk.set_section(ylevel, section)
ChunkSetSection ==
    /\ \E ylevel \in {0, 2}, air \in BOOLEAN :
          /\ ck_arg' = ylevel
          /\ ck_chunk' = Chunk_set_section(ck_chunk, ylevel,
                             IF air THEN AirSection(ylevel)
                             ELSE StoneSection(ylevel))
    /\ ck_result' = [raised |-> "none"]
    /\ ck_pc' = "set_section"
    /\ UNCHANGED notCk

\* Chunk.get_nbt(entities_to_update)
ChunkGetNbt ==
    /\ \E entities_to_update \in EntityLists :
          /\ ck_arg' = Len(entities_to_update)
          /\ ck_result' = Chunk_get_nbt(ck_chunk, entities_to_update)
    /\ ck_pc' = "get_nbt"
    /\ UNCHANGED ck_chunk
    /\ UNCHANGED notCk

ObjectNext == ChunkGetSection \/ ChunkSetSection \/ ChunkGetNbt

(***************************************************************************)
(* SpecFlush: one Editor on a world with a chunk that cannot be encoded,   *)
(* a chunk that was never generated and a region without a file.           *)
(***************************************************************************)
\* the chunks on disk: InitialWorld, and in region (0,0) the chunk (1,0)
\* without the tag PostProcessing.  Region (0,0) has no chunk (2,0), and
\* region (1,0) has no file.
FlushWorld ==
    InitialWorld
    @@
    (<<<<0, 0>>, <<1, 0>>>> :>
        WithoutTag(ChunkNbt(1, 0, "full", <<StoneSection(0)>>), "PostProcessing"))

\* the coordinates the caller sets blocks at: a cell that can be written, a
\* cell of the chunk that cannot be encoded, a cell of another region, a
\* cell of a level without a section, of a level out of range, of the chunk
\* never generated, and of the region without a file
FlushPositions ==
    {<<0, 0, 0>>, <<16, 0, 0>>, <<-1, 0, 0>>, <<0, 32, 0>>, <<0, 400, 0>>,
     <<32, 0, 0>>, <<512, 0, 0>>}

\* the coordinates the caller reads: a cell of a level without a section,
\* which leaves the chunk in self.chunks
FlushReads == {<<0, 32, 0>>}

\* Editor.__init__
FlushInit ==
    /\ world = FlushWorld
    /\ blocks_map = <<>>
    /\ sections = <<>>
    /\ chunks = <<>>
    /\ write_sections = <<>>
    /\ returned = Air
    /\ entities = <<>>
    /\ calls = <<>>
    /\ SecIdle
    /\ ToolsIdle
    /\ ChunkIdle
    /\ RegIdle
    /\ RdIdle
    /\ CkIdle
    /\ BkIdle
    /\ PlIdle

FlushSetBlock == SetBlock({Block(5, <<>>)}, FlushPositions)

FlushGetBlock == GetBlock(FlushReads)

FlushDone == Done

FlushNext == FlushSetBlock \/ FlushGetBlock \/ FlushDone

(***************************************************************************)
(* SpecBlock: two Blocks are built, from a name and properties or from a   *)
(* compound; they are compared and added to a set.                         *)
(***************************************************************************)
\* the property dicts of the Blocks: none, one pair, two pairs in both
\* insertion orders, and the same names with another value
PropertyDicts ==
    {<<>>, <<<<1, 1>>>>, <<<<1, 1>>, <<2, 1>>>>, <<<<2, 1>>, <<1, 1>>>>,
     <<<<1, 2>>, <<2, 1>>>>}

\* the Blocks that are built
BuiltBlocks ==
    {BlockFromName(name, properties) :
        name \in {1, 2}, properties \in PropertyDicts}
    \cup
    {BlockFromCompound([id |-> name, properties |-> properties]) :
        name \in {1, 2}, properties \in PropertyDicts}

BlockInit ==
    /\ bk_a \in BuiltBlocks
    /\ bk_b \in BuiltBlocks
    /\ bk_set = <<>>
    /\ bk_eq = TRUE
    /\ bk_pc = "new"
    /\ SecIdle
    /\ ToolsIdle
    /\ ChunkIdle
    /\ RegIdle
    /\ RdIdle
    /\ CkIdle
    /\ EdIdle
    /\ PlIdle

\* bk_a == bk_b
BlockCompare ==
    /\ bk_pc = "new"
    /\ bk_eq' = BlockEq(bk_a, bk_b)
    /\ bk_pc' = "eq"
    /\ UNCHANGED <<bk_a, bk_b, bk_set>>
    /\ UNCHANGED notBk

\* set.add(bk_a) or set.add(bk_b)
BlockAdd ==
    /\ bk_pc # "new"
    /\ \E block \in {bk_a, bk_b} : bk_set' = SetAdd(bk_set, block)
    /\ bk_pc' = "add"
    /\ UNCHANGED <<bk_a, bk_b, bk_eq>>
    /\ UNCHANGED notBk

BlockNext == BlockCompare \/ BlockAdd

(***************************************************************************)
(* SpecPalette: two Sections of PalCells cells get equal Blocks cell by    *)
(* cell, are packed with get_nbt, and the compound of the first is read    *)
(* with the data words delivered signed or unsigned.                       *)
(***************************************************************************)
\* the cells of the two Sections
PalCells == 32

\* the palette sizes they start from: 16 Blocks fill the top bits of every
\* word, 17 need 5 bits a cell
PalSizes == {1, 2, 9, 16, 17}

\* the pairs of equal Blocks that are set: a Block with two properties in
\* the same or in the other insertion order, and a Block of the same
\* identifier with one property
EqualPairs ==
    {<<Block(3, <<<<1, 1>>, <<2, 1>>>>), Block(3, <<<<1, 1>>, <<2, 1>>>>)>>,
     <<Block(3, <<<<1, 1>>, <<2, 1>>>>), Block(3, <<<<2, 1>>, <<1, 1>>>>)>>,
     <<Block(3, <<<<2, 1>>, <<1, 1>>>>), Block(3, <<<<1, 1>>, <<2, 1>>>>)>>,
     <<Block(3, <<<<1, 2>>>>), Block(3, <<<<1, 2>>>>)>>}

PaletteInit ==
    /\ \E n \in PalSizes :
          /\ pl_blocks = [k \in 1..PalCells |-> Block((k - 1) % n, <<>>)]
          /\ pl_other = [k \in 1..PalCells |-> Block((k - 1) % n, <<>>)]
    /\ pl_nbt = NoValue
    /\ pl_other_nbt = NoValue
    /\ pl_signed = FALSE
    /\ pl_read = <<>>
    /\ pl_pc = "edit"
    /\ SecIdle
    /\ ToolsIdle
    /\ ChunkIdle
    /\ RegIdle
    /\ RdIdle
    /\ CkIdle
    /\ EdIdle
    /\ BkIdle

\* Section.set_block on both Sections, with Blocks that are equal
PaletteSetBlock ==
    /\ pl_pc = "edit"
    /\ \E index \in {0, 1}, pair \in EqualPairs :
          /\ pl_blocks' = set_block(pl_blocks, pair[1], index)
          /\ pl_other' = set_block(pl_other, pair[2], index)
    /\ UNCHANGED <<pl_nbt, pl_other_nbt, pl_signed, pl_read, pl_pc>>
    /\ UNCHANGED notPl

\* Section.get_nbt on both Sections
PalettePack ==
    /\ pl_pc = "edit"
    /\ pl_nbt' = get_nbt(0, 0, pl_blocks)
    /\ pl_other_nbt' = get_nbt(0, 0, pl_other)
    /\ pl_pc' = "packed"
    /\ UNCHANGED <<pl_blocks, pl_other, pl_signed, pl_read>>
    /\ UNCHANGED notPl

\* Section(0, pl_nbt): read_blocks
PaletteRead ==
    /\ pl_pc = "packed"
    /\ \E signed \in BOOLEAN :
          /\ pl_signed' = signed
          /\ pl_read' = read_blocks_delivered(pl_nbt, PalCells, signed)
    /\ pl_pc' = "read"
    /\ UNCHANGED <<pl_blocks, pl_other, pl_nbt, pl_other_nbt>>
    /\ UNCHANGED notPl

PaletteNext == PaletteSetBlock \/ PalettePack \/ PaletteRead

(***************************************************************************)
(* SpecCopy: one Editor on a world with block entities; the caller calls   *)
(* copy_blocks and done in any order.                                      *)
(***************************************************************************)
\* the chunks on disk: in region (0,0) the chunk (0,0) with a row of
\* different blocks at level 0 and stone and dirt at level 1, and a block
\* entity at x = 0 and one at x = 5; and the chunk (1,0) of stone with a
\* block entity at x = 20.  The sections have different biomes, and those
\* of chunk (0,0) have the tag SkyLight, which Section.get_nbt does not write.
CopyWorld ==
    (<<<<0, 0>>, <<0, 0>>>> :>
        [ChunkNbt(0, 0, "full",
             <<("SkyLight" :> <<15>>)
                   @@ get_nbt(0, 7, [k \in 1..EditorCells |-> Block(k, <<>>)]),
               ("SkyLight" :> <<14>>)
                   @@ get_nbt(1, 8, [k \in 1..EditorCells |->
                                        IF k % 2 = 0 THEN Stone ELSE Dirt])>>)
         EXCEPT !.block_entities =
             <<[id |-> 1, x |-> 0, y |-> 0, z |-> 0],
               [id |-> 2, x |-> 5, y |-> 0, z |-> 0]>>])
    @@
    (<<<<0, 0>>, <<1, 0>>>> :>
        [ChunkNbt(1, 0, "full",
             <<get_nbt(0, 9, [k \in 1..EditorCells |-> Stone])>>)
         EXCEPT !.block_entities = <<[id |-> 3, x |-> 20, y |-> 0, z |-> 0]>>])

\* the arguments of copy_blocks: two cells from x = 0 to x = 4; two cells
\* from x = 4 to x = 8; two cells from x = 0 into the next chunk, once in
\* place and once two cells on; two cells from x = 0 to x = 4 with the one
\* repetition two cells on; two cells from x = 0 to x = 8 with repetitions
\* that overlap
CopyArgs ==
    {[source |-> <<0, 0, 0>>, dest |-> <<4, 0, 0>>, size |-> <<2, 1, 1>>,
      rep |-> <<>>],
     [source |-> <<4, 0, 0>>, dest |-> <<8, 0, 0>>, size |-> <<2, 1, 1>>,
      rep |-> <<>>],
     [source |-> <<0, 0, 0>>, dest |-> <<16, 0, 0>>, size |-> <<2, 1, 1>>,
      rep |-> <<<<0, 0, 0>>, <<2, 0, 0>>>>],
     [source |-> <<0, 0, 0>>, dest |-> <<4, 0, 0>>, size |-> <<2, 1, 1>>,
      rep |-> <<<<2, 0, 0>>>>],
     [source |-> <<0, 0, 0>>, dest |-> <<8, 0, 0>>, size |-> <<2, 1, 1>>,
      rep |-> <<<<0, 0, 0>>, <<1, 0, 0>>>>]}

\* Editor.__init__
CopyInit ==
    /\ world = CopyWorld
    /\ blocks_map = <<>>
    /\ sections = <<>>
    /\ chunks = <<>>
    /\ write_sections = <<>>
    /\ returned = Air
    /\ entities = <<>>
    /\ calls = <<>>
    /\ SecIdle
    /\ ToolsIdle
    /\ ChunkIdle
    /\ RegIdle
    /\ RdIdle
    /\ CkIdle
    /\ BkIdle
    /\ PlIdle

\* Editor.copy_blocks(source, dest, size, rep)
CopyBlocks ==
    /\ Len(calls) < MaxCalls
    /\ \E args \in CopyArgs :
          \E result \in {Editor_copy_blocks(args, world,
                            [blocks_map |-> blocks_map, sections |-> sections,
                             chunks |-> chunks, entities |-> entities])} :
              /\ blocks_map' = result.blocks_map
              /\ sections' = result.sections
              /\ chunks' = result.chunks
              /\ entities' = result.entities
              /\ calls' = Append(calls, [op |-> "copy_blocks", block |-> Air,
                                         pos |-> args.source,
                                         raised |-> result.raised,
                                         args |-> args])
    /\ UNCHANGED <<world, write_sections, returned>>
    /\ UNCHANGED notEd

CopyDone == Done

CopyNext == CopyBlocks \/ CopyDone

vars == <<secVars, toolVars, chunkVars, regVars, edVars, rdVars, ckVars, bkVars, plVars>>

SpecSection == SecInit /\ [][SecNext]_vars

SpecTools == ToolsInit /\ [][ToolsNext]_vars

SpecLocator == LocatorInit /\ [][LocatorNext]_vars

SpecChunk == ChunkInit /\ [][ChunkNext]_vars

SpecRegion == RegionInit /\ [][RegionNext]_vars

SpecEditor == EditorInit /\ [][EditorNext]_vars

SpecRead == ReadInit /\ [][ReadNext]_vars

SpecObject == ObjectInit /\ [][ObjectNext]_vars

SpecFlush == FlushInit /\ [][FlushNext]_vars

SpecBlock == BlockInit /\ [][BlockNext]_vars

SpecPalette == PaletteInit /\ [][PaletteNext]_vars

SpecCopy == CopyInit /\ [][CopyNext]_vars

(***************************************************************************)
(* Claims about the section packer                                         *)
(***************************************************************************)
\* ceil(log2(n)) for n >= 1, from its definition
CeilLog2(n) == CHOOSE k \in 0..12 : Pow2(k) >= n /\ (k = 0 \/ Pow2(k - 1) < n)

\* max(4, ceil(log2(n)))
SpecBits(n) == IF CeilLog2(n) > 4 THEN CeilLog2(n) ELSE 4

\* the value of the bits [lo, lo + b) of the word w
Field(w, lo, b) == FromBits({i - lo : i \in {j \in w : j >= lo /\ j < lo + b}})

CellsEqual(a, b) ==
    /\ Len(a) = Len(b)
    /\ \A k \in DOMAIN a : BlockEq(a[k], b[k])

\* C1: unpacking what get_nbt packed returns the same 4096 Blocks in the
\* same order, for every section the scenario reaches
C1_RoundTrip ==
    spc = "read" =>
        /\ Len(read_back) = SECTION_CELLS
        /\ CellsEqual(read_back, blocks)

C1_Witness ==
    /\ spc = "read"
    /\ Len(nbt_section.palette) = 17
    /\ CellsEqual(read_back, blocks)
    /\ \E k \in DOMAIN blocks : blocks[k] \in EditBlocks

\* C2: with b bits per index and p = floor(64/b), cell k is stored in the
\* bits [(k mod p)*b, (k mod p)*b + b) of word floor(k/p), the other bits
\* of every word are zero, ceil(4096/p) words are emitted, and read_blocks
\* extracts each cell from the same place
C2_NoCrossWordSplitting ==
    spc \in {"packed", "read"} =>
        LET palette == nbt_section.palette
            b == SpecBits(Len(palette))
            p == LONG_BITS \div b
        IN  /\ Len(states) = (SECTION_CELLS + p - 1) \div p
            /\ \A w \in DOMAIN states : \A i \in states[w] : i >= 0 /\ i < p * b
            /\ \A k \in 0..(SECTION_CELLS - 1) :
                   Field(states[(k \div p) + 1], (k % p) * b, b)
                       = PaletteIndex(palette, blocks[k + 1])
            /\ (spc = "read" /\ Len(palette) > 1) =>
                   \A k \in 0..(SECTION_CELLS - 1) :
                       read_back[k + 1] =
                           palette[Field(nbt_section.data[(k \div p) + 1],
                                         (k % p) * b, b) + 1]

\* with 5 bits the 13th index (cell 12) is the first entry of word 1
C2_Witness ==
    /\ spc = "read"
    /\ SpecBits(Len(nbt_section.palette)) = 5
    /\ Field(states[2], 0, 5) = PaletteIndex(nbt_section.palette, blocks[13])
    /\ Field(states[2], 0, 5) # 0
    /\ \A i \in states[1] : i < 60

\* C3: pack and unpack both use max(4, ceil(log2(N))) bits for a palette of
\* N entries
C3_BitWidth ==
    spc \in {"packed", "read"} =>
        LET palette == nbt_section.palette
        IN  /\ PackBits(palette) = SpecBits(Len(palette))
            /\ ReadBits(palette) = SpecBits(Len(palette))

C3_Witness ==
    /\ spc = "packed"
    /\ Len(nbt_section.palette) = 17
    /\ PackBits(nbt_section.palette) = 5
    /\ ReadBits(nbt_section.palette) = 5

(***************************************************************************)
(* Claims about the coordinate mapper                                      *)
(***************************************************************************)
\* floor(n / d) from its definition: the q with d*q <= n < d*q + d
Floor(n, d) ==
    CHOOSE q \in (-(MaxCoord \div d) - 2)..((MaxCoord \div d) + 2) :
        d * q <= n /\ n < d * q + d

\* n / d rounded toward zero
Truncate(n, d) == IF n >= 0 THEN Floor(n, d) ELSE -Floor(-n, d)

\* C10: block_to_region, block_to_chunk and block_to_ylevel divide by 512,
\* 16 and 16 rounding toward negative infinity, also for negative
\* coordinates, where the result differs from the truncated quotient
\* whenever the division is inexact
C10_FlooredDivision ==
    /\ "block_to_region" \in called =>
           /\ out_region = <<Floor(in_x, 512), Floor(in_z, 512)>>
           /\ (in_x < 0 /\ in_x % 512 # 0) => out_region[1] = Truncate(in_x, 512) - 1
           /\ (in_z < 0 /\ in_z % 512 # 0) => out_region[2] = Truncate(in_z, 512) - 1
           /\ (in_x = -1 /\ in_z = -1) => out_region = <<-1, -1>>
    /\ "block_to_chunk" \in called =>
           /\ out_chunk = <<Floor(in_x, 16), Floor(in_z, 16)>>
           /\ (in_x < 0 /\ in_x % 16 # 0) => out_chunk[1] = Truncate(in_x, 16) - 1
           /\ (in_z < 0 /\ in_z % 16 # 0) => out_chunk[2] = Truncate(in_z, 16) - 1
           /\ (in_x = -1 /\ in_z = 0) => out_chunk = <<-1, 0>>
    /\ "block_to_ylevel" \in called =>
           /\ out_ylevel = Floor(in_y, 16)
           /\ (in_y < 0 /\ in_y % 16 # 0) => out_ylevel = Truncate(in_y, 16) - 1
           /\ in_y = -1 => out_ylevel = -1
           /\ in_y = -64 => out_ylevel = -4

C10_Witness ==
    /\ called = {"block_to_region", "block_to_chunk", "block_to_ylevel"}
    /\ in_x = -1 /\ in_z = -1 /\ in_y = -64
    /\ out_region = <<-1, -1>>
    /\ out_chunk = <<-1, -1>>
    /\ out_ylevel = -4

(***************************************************************************)
(* tools.block_to_id_index                                                 *)
(***************************************************************************)
\* n mod d with the sign of d: n - d * floor(n / d)
FlooredMod(n, d) == n - d * Floor(n, d)

\* C11: block_to_id_index(x, y, z) yields the region (floor(x/512),
\* floor(z/512)), the chunk (floor((x mod 512)/16), floor((z mod 512)/16))
\* with both parts in 0..31, the level floor(y/16) and the index
\* (y mod 16)*256 + (z mod 16)*16 + (x mod 16) in 0..4095, with floored
\* modulo; (712, 70, 612) gives (1,1), (12,6), 4 and 1608.
C11_LocatorValues ==
    "block_to_id_index" \in called =>
        /\ out_id_index[1] = <<Floor(in_x, 512), Floor(in_z, 512)>>
        /\ out_id_index[2] = <<Floor(FlooredMod(in_x, 512), 16),
                               Floor(FlooredMod(in_z, 512), 16)>>
        /\ out_id_index[2][1] \in 0..31 /\ out_id_index[2][2] \in 0..31
        /\ out_id_index[3] = Floor(in_y, 16)
        /\ out_id_index[4] = FlooredMod(in_y, 16) * 256 + FlooredMod(in_z, 16) * 16
                                 + FlooredMod(in_x, 16)
        /\ out_id_index[4] \in 0..4095
        /\ (in_x = 712 /\ in_y = 70 /\ in_z = 612) =>
               /\ out_id_index[1] = <<1, 1>> /\ out_id_index[2] = <<12, 6>>
               /\ out_id_index[3] = 4 /\ out_id_index[4] = 1608

\* C11: the locator of the block (-1, -64, -1): region (-1,-1), chunk
\* (31,31), level -4, index 255
C11_Witness ==
    /\ "block_to_id_index" \in called
    /\ in_x = -1 /\ in_y = -64 /\ in_z = -1
    /\ out_id_index[1] = <<-1, -1>>
    /\ out_id_index[2] = <<31, 31>>
    /\ out_id_index[3] = -4
    /\ out_id_index[4] = 255

\* C12: block_to_id_index returns a pair: the triple (region, chunk,
\* ylevel) and the index; (0,0,0) gives (((0,0),(0,0),0), 0) and
\* (712,70,612) gives (((1,1),(12,6),4), 1608).
C12_LocatorShape ==
    "block_to_id_index" \in called =>
        /\ Len(out_id_index) = 2
        /\ Len(out_id_index[1]) = 3
        /\ (in_x = 0 /\ in_y = 0 /\ in_z = 0) =>
               out_id_index = <<<<<<0, 0>>, <<0, 0>>, 0>>, 0>>
        /\ (in_x = 712 /\ in_y = 70 /\ in_z = 612) =>
               out_id_index = <<<<<<1, 1>>, <<12, 6>>, 4>>, 1608>>

\* C12: block_to_id_index(0, 0, 0) returned the four values (0,0), (0,0),
\* 0, 0 side by side
C12_Witness ==
    /\ "block_to_id_index" \in called
    /\ in_x = 0 /\ in_y = 0 /\ in_z = 0
    /\ Len(out_id_index) = 4
    /\ out_id_index = <<<<0, 0>>, <<0, 0>>, 0, 0>>

(***************************************************************************)
(* Region.write                                                            *)
(***************************************************************************)
AllCoords == (0..31) \X (0..31)

\* the original header entry of a chunk
OldEntry(c) == chunk_location(self_data, c[1], c[2])

\* the entry the file on disk holds for a chunk
NewEntry(c) == chunk_location(disk, c[1], c[2])

\* the bytes of the sector range an entry names in a file
RangeBytes(file, entry) ==
    Slice(file, entry[1] * SECTOR, (entry[1] + entry[2]) * SECTOR)

\* the chunks that are no key of the update map and have an original entry
Unmodified ==
    {c \in AllCoords : c \notin DOMAIN chunks_to_update /\ OldEntry(c) # <<0, 0>>}

\* every update length is a multiple of 4096 and the original range of
\* every unmodified chunk lies inside the original file
InputsAligned ==
    /\ \A c \in DOMAIN chunks_to_update :
           chunks_to_update[c] # Zero
               => Len(chunks_to_update[c].bytes) % SECTOR = 0
    /\ \A c \in Unmodified :
           (OldEntry(c)[1] + OldEntry(c)[2]) * SECTOR <= Len(self_data)

\* C4: what Region.write puts on disk has a length that is a positive
\* multiple of 4096, at least the two header sectors; when the length
\* assertion (or anything before it) raises, the file is left as it was.
C4_WriteSize ==
    /\ rpc = "written" => Len(disk) % SECTOR = 0 /\ Len(disk) >= 2 * SECTOR
    /\ rpc = "raised" => disk = self_data

\* C4: a write of two half-sector updates next to copied chunks went through
C4_Witness ==
    /\ rpc = "written"
    /\ Unmodified # {}
    /\ \E c \in DOMAIN chunks_to_update :
           /\ chunks_to_update[c] # Zero
           /\ Len(chunks_to_update[c].bytes) % SECTOR # 0
    /\ Len(disk) > 2 * SECTOR

\* C5 as stated, for every input: in the written file the range that the new
\* header names for an unmodified chunk holds the bytes of its original
\* range, with the same sector count.
C5_UnmodifiedPreserved_AnyInput ==
    rpc = "written" =>
        \A c \in Unmodified :
            /\ NewEntry(c)[2] = OldEntry(c)[2]
            /\ RangeBytes(disk, NewEntry(c)) = RangeBytes(self_data, OldEntry(c))

\* C5, amended: provided every update length is a multiple of 4096 and the
\* original range of every unmodified chunk lies inside the original file,
\* the range that the new header names for an unmodified chunk holds the
\* bytes of its original range, with the same sector count.
C5_UnmodifiedPreserved ==
    (rpc = "written" /\ InputsAligned) =>
        \A c \in Unmodified :
            /\ NewEntry(c)[2] = OldEntry(c)[2]
            /\ RangeBytes(disk, NewEntry(c)) = RangeBytes(self_data, OldEntry(c))

\* C5: an unmodified chunk was moved to another offset by a write that also
\* stored an update
C5_Witness ==
    /\ rpc = "written"
    /\ InputsAligned
    /\ \E c \in DOMAIN chunks_to_update : chunks_to_update[c] # Zero
    /\ \E c \in Unmodified :
           /\ OldEntry(c)[2] > 0
           /\ NewEntry(c)[1] # OldEntry(c)[1]

\* the sector count of a chunk in the written file
SectorsOf(c) ==
    IF c \in DOMAIN chunks_to_update
    THEN IF chunks_to_update[c] # Zero
         THEN (Len(chunks_to_update[c].bytes) + SECTOR - 1) \div SECTOR
         ELSE 0
    ELSE OldEntry(c)[2]

\* the bytes of a chunk in the written file
BytesOf(c) ==
    IF c \in DOMAIN chunks_to_update
    THEN chunks_to_update[c].bytes
    ELSE RangeBytes(self_data, OldEntry(c))

\* the place of a chunk in row-major order, z outer and x inner
RowMajor(c) == c[1] + 32 * c[2]

RECURSIVE SumSectors(_)
SumSectors(cs) ==
    IF cs = {} THEN 0
    ELSE LET c == CHOOSE d \in cs : TRUE
         IN  SectorsOf(c) + SumSectors(cs \ {c})

\* C6: the entry of a chunk is at 4 * (x + 32 * z); a chunk with sectors
\* gets offset 2 plus the sector counts of the chunks before it in row-major
\* order, and its sector count; a chunk without gets four zero bytes.  When
\* the update lengths are multiples of 4096 and the original ranges lie
\* inside the file, the named ranges are pairwise disjoint, cover the file
\* from byte 8192 to its end, and each holds its chunk's bytes.
C6_SectorLayout ==
    rpc = "written" =>
        LET present == {c \in AllCoords : SectorsOf(c) > 0}
            cursor == [c \in present |->
                          2 + SumSectors({d \in present : RowMajor(d) < RowMajor(c)})]
        IN  /\ \A c \in AllCoords :
                   LET at == 4 * RowMajor(c)
                   IN  IF c \in present
                       THEN /\ from_bytes(Slice(disk, at, at + 3)) = cursor[c]
                            /\ disk[at + 4] = SectorsOf(c)
                       ELSE Slice(disk, at, at + 4) = <<0, 0, 0, 0>>
            /\ InputsAligned =>
                   /\ \A c \in present :
                          /\ NewEntry(c)[1] >= 2
                          /\ (NewEntry(c)[1] + NewEntry(c)[2]) * SECTOR <= Len(disk)
                          /\ RangeBytes(disk, NewEntry(c)) = BytesOf(c)
                   /\ \A c, d \in present :
                          RowMajor(c) < RowMajor(d)
                              => NewEntry(c)[1] + NewEntry(c)[2] <= NewEntry(d)[1]
                   /\ Len(disk) = (2 + SumSectors(present)) * SECTOR

\* C6: a write that copied a chunk, stored an update of two sectors before
\* it and dropped a chunk the file had
C6_Witness ==
    /\ rpc = "written"
    /\ InputsAligned
    /\ \E c \in DOMAIN chunks_to_update :
           chunks_to_update[c] = Zero /\ OldEntry(c) # <<0, 0>>
    /\ \E c \in DOMAIN chunks_to_update, d \in Unmodified :
           /\ SectorsOf(c) = 2
           /\ SectorsOf(d) > 0
           /\ RowMajor(c) < RowMajor(d)
           /\ NewEntry(d)[1] = NewEntry(c)[1] + 2

(***************************************************************************)
(* Region.chunk_data                                                       *)
(***************************************************************************)
\* the header entry of the chunk that was read, and the compression id of
\* its frame
ReadEntry == chunk_location(rd_data, rd_coord[1], rd_coord[2])

ReadCompression == rd_data[ReadEntry[1] * SECTOR + 5]

\* C13: when the compression id of a generated chunk is not 2,
\* Region.chunk_data raises GZipChunkData and does not call the
\* decompressor.
C13_UnsupportedCompressionRejected ==
    (rd_pc = "chunk_data" /\ ReadEntry # <<0, 0>> /\ ReadCompression # 2) =>
        /\ rd_result.raised = "GZipChunkData"
        /\ ~rd_result.decompressed

\* C13: a frame with compression id 3 (uncompressed) was read; its bytes
\* went to zlib.decompress, which raised
C13_Witness ==
    /\ rd_pc = "chunk_data"
    /\ ReadEntry = <<2, 1>>
    /\ ReadCompression = 3
    /\ rd_result.decompressed
    /\ rd_result.compressed_data[1] = 10
    /\ rd_result.raised = "zlib.error"

\* C14: reading a chunk whose header entry is (0,0) fails with the chunk
\* not found error, hands no bytes to the decompressor and returns no
\* chunk.
C14_ChunkNotFound ==
    (rd_pc \in {"chunk_data", "copy_chunk"} /\ ReadEntry = <<0, 0>>) =>
        /\ rd_result.raised = "ChunkNotFound"
        /\ ~rd_result.decompressed
        /\ rd_result.returned # "NBTFile"

\* C14: chunk_data was called for a chunk that was never generated and
\* returned None without raising
C14_Witness ==
    /\ rd_pc = "chunk_data"
    /\ ReadEntry = <<0, 0>>
    /\ rd_result.raised = "none"
    /\ rd_result.returned = "None"
    /\ ~rd_result.decompressed

(***************************************************************************)
(* Chunk.get_section / get_nbt                                             *)
(***************************************************************************)
\* the level of the last call is inside MIN_SECTION..MAX_SECTION
InRange(y) == MIN_SECTION <= y /\ y <= MAX_SECTION

\* C15: a call of Chunk.get_section(y) with y < MIN_SECTION or
\* y > MAX_SECTION raises OutOfBoundsCoordinates, whether or not a section
\* is stored under y, and leaves self.sections as it was.
C15_OutOfRangeLevel ==
    [][(ck_pc' = "get_section" /\ ~InRange(ck_arg')) =>
          /\ ck_result'.raised = "OutOfBoundsCoordinates"
          /\ ck_chunk'.sections = ck_chunk.sections
          /\ ck_chunk'.keys = ck_chunk.keys]_vars

\* C15: get_section(20) was called on a chunk that stores a section under
\* Y = 20, and raised OutOfBoundsCoordinates
C15_Witness ==
    /\ ck_pc = "get_section"
    /\ ck_arg = 20
    /\ 20 \in DOMAIN ck_chunk.sections
    /\ ck_result.raised = "OutOfBoundsCoordinates"

\* C16: a call of Chunk.get_section(y) with y in MIN_SECTION..MAX_SECTION
\* on a chunk that holds no section under y raises nothing and returns a
\* section whose cells are all air.
C16_LazyEmptySection ==
    (/\ ck_pc = "get_section"
     /\ InRange(ck_arg)
     /\ ck_arg \notin DOMAIN ck_chunk.sections) =>
        /\ ck_result.raised = "none"
        /\ \A k \in DOMAIN ck_result.section.blocks :
               BlockEq(ck_result.section.blocks[k], Air)

\* C16: get_section(2) was called on a chunk that holds sections 0 and 1
\* and no section 2, and raised KeyError
C16_Witness ==
    /\ ck_pc = "get_section"
    /\ ck_arg = 2
    /\ DOMAIN ck_chunk.sections = {0, 1}
    /\ ck_result.raised = "KeyError"

\* the tags of the decoded chunk other than the sections and the block
\* entities
OtherTags == (DOMAIN ck_chunk.nbt_data) \ {"sections", "block_entities"}

\* C17: the root Chunk.get_nbt returns has every tag of the decoded chunk
\* other than the sections and the block entities, with the decoded value.
C17_PassThrough ==
    (ck_pc = "get_nbt" /\ ck_result.raised = "none") =>
        \A tag \in OtherTags :
            /\ tag \in DOMAIN ck_result.nbt
            /\ ck_result.nbt[tag] = ck_chunk.nbt_data[tag]

\* C17: get_nbt was called on a chunk decoded with Status "features" and
\* the tags yPos and isLightOn; the root has Status "full" and neither of
\* the two tags, and the tags of CopiedTags, DataVersion, xPos and zPos as
\* decoded
C17_Witness ==
    /\ ck_pc = "get_nbt"
    /\ ck_result.raised = "none"
    /\ ck_chunk.nbt_data.Status = "features"
    /\ ck_result.nbt.Status = "full"
    /\ {"yPos", "isLightOn"} \subseteq DOMAIN ck_chunk.nbt_data
    /\ {"yPos", "isLightOn"} \cap DOMAIN ck_result.nbt = {}
    /\ \A tag \in CopiedTags \cup {"DataVersion", "xPos", "zPos"} :
           ck_result.nbt[tag] = ck_chunk.nbt_data[tag]

\* the palette of a section compound is the single entry minecraft:air
AllAir(section) ==
    /\ "palette" \in DOMAIN section
    /\ Len(section.palette) = 1
    /\ BlockEq(BlockFromCompound(section.palette[1]), Air)

\* C18: the sections of the root Chunk.get_nbt returns are the sections of
\* self.sections that are not all air.
C18_AirNotPersisted ==
    (ck_pc = "get_nbt" /\ ck_result.raised = "none") =>
        /\ \A i \in DOMAIN ck_result.nbt.sections :
               ~AllAir(ck_result.nbt.sections[i])
        /\ \A y \in DOMAIN ck_chunk.sections :
               ~AllAir(ck_chunk.sections[y]) =>
                   \E i \in DOMAIN ck_result.nbt.sections :
                       ck_result.nbt.sections[i] = ck_chunk.sections[y]

\* C18: section 0 was set to an all-air section with set_section, and the
\* root get_nbt returned has it
C18_Witness ==
    /\ ck_pc = "get_nbt"
    /\ ck_result.raised = "none"
    /\ 0 \in DOMAIN ck_chunk.sections
    /\ AllAir(ck_chunk.sections[0])
    /\ ck_chunk.nbt_data.sections # <<>>
    /\ ~AllAir(ck_chunk.nbt_data.sections[1])
    /\ \E i \in DOMAIN ck_result.nbt.sections :
           /\ ck_result.nbt.sections[i].Y = 0
           /\ AllAir(ck_result.nbt.sections[i])

(***************************************************************************)
(* Editor                                                                  *)
(***************************************************************************)
\* the section id and the cell of a block coordinate
SectionIdOf(pos) ==
    <<block_to_region(pos[1], pos[3]),
      block_to_chunk(pos[1] % REGION_SIZE, pos[3] % REGION_SIZE),
      block_to_ylevel(pos[2])>>

CellOf(pos) ==
    (pos[2] % CHUNK_SIZE) * 256 + (pos[3] % CHUNK_SIZE) * 16 + (pos[1] % CHUNK_SIZE)

\* the Blocks of a section as stored in the files
StoredBlocks(files, section_id) ==
    LET stored == files[<<section_id[1], section_id[2]>>].sections
        i == CHOOSE j \in DOMAIN stored : stored[j].Y = section_id[3]
    IN  read_blocks(stored[i], EditorCells)

\* the calls of set_block made so far for a cell of a section
SetCalls(section_id, cell) ==
    {i \in DOMAIN calls :
        /\ calls[i].op = "set_block"
        /\ SectionIdOf(calls[i].pos) = section_id
        /\ CellOf(calls[i].pos) = cell}

Last(S) == CHOOSE i \in S : \A j \in S : j <= i

C9_ChunkFraming ==
    LET n == Len(chunk_data)
    IN  /\ cpc \in {"framed", "read"} =>
               /\ Len(bytes_data) = SECTOR * ((n + 5 + SECTOR - 1) \div SECTOR)
               /\ from_bytes(Slice(bytes_data, 0, 4)) = n + 1
               /\ bytes_data[5] = 2
               /\ Slice(bytes_data, 5, 5 + n) = chunk_data
               /\ \A k \in (n + 6)..Len(bytes_data) : bytes_data[k] = 0
        /\ cpc = "read" => compressed_data = chunk_data

\* C9: a compressed chunk of 4091 bytes, whose frame fills one sector, got a
\* frame of two sectors
C9_Witness ==
    /\ cpc = "framed"
    /\ Len(chunk_data) = SECTOR - 5
    /\ Len(bytes_data) = 2 * SECTOR

(***************************************************************************)
(* Editor.done when loading or encoding fails                              *)
(***************************************************************************)
\* the step is a call of done
DoneStep == Len(calls') = Len(calls) + 1 /\ calls'[Len(calls')].op = "done"

\* the section ids of self.blocks_map that lie in a region
TouchedIn(region_coord) ==
    {blocks_map[i].section_id :
        i \in {j \in DOMAIN blocks_map :
                  blocks_map[j].section_id[1] = region_coord}}

\* loading a section fails: it is not in self.write_sections, and its
\* region has no file, or the file has no such chunk, or the level is out
\* of range, or the chunk holds no section of the level
LoadFails(id) ==
    /\ id \notin DOMAIN write_sections
    /\ \/ <<id[1], id[2]>> \notin DOMAIN world
       \/ ~InRange(id[3])
       \/ \A i \in DOMAIN world[<<id[1], id[2]>>].sections :
              world[<<id[1], id[2]>>].sections[i].Y # id[3]

\* encoding the chunk of a section fails: the chunk on disk lacks a tag
\* that get_nbt reads
EncodeFails(id) ==
    /\ <<id[1], id[2]>> \in DOMAIN world
    /\ ~((CopiedTags \cup {"block_entities"})
            \subseteq DOMAIN world[<<id[1], id[2]>>])

SetStep ==
    Len(calls') = Len(calls) + 1 /\ calls'[Len(calls')].op = "set_block"

\* the keys of a blocks_map in insertion order, and the list under a key
\* (empty when the key is absent)
KeysOf(map) == [i \in DOMAIN map |-> map[i].section_id]

PendingOf(map, section_id) ==
    IF \E i \in DOMAIN map : map[i].section_id = section_id
    THEN map[CHOOSE i \in DOMAIN map : map[i].section_id = section_id].updates
    ELSE <<>>

\* what get_block(x, y, z) would raise or return in a state of the Editor
GetBlockResult(pos, secs, chs, files) ==
    LET id_index == block_to_id_index(pos[1], pos[2], pos[3])
        section_id == <<id_index[1], id_index[2], id_index[3]>>
        got == Editor_get_section(chs, files, section_id)
    IN  IF section_id \in DOMAIN secs
        THEN [raised |-> "none",
              block |-> Section_get_block(secs[section_id], id_index[4])]
        ELSE IF got.raised # "none" THEN [raised |-> got.raised]
        ELSE [raised |-> "none",
              block |-> Section_get_block(got.section, id_index[4])]

\* C20: a call set_block(block, x, y, z) appends (block, index) to the end
\* of the pending list under the key (region, chunk, ylevel) of (x, y, z),
\* which starts empty when the key is new; the other keys, their lists and
\* their order, self.sections, self.chunks, self.write_sections and the
\* files are unchanged, and get_block gives the same for every coordinate.
C20_SetBlockAppends ==
    [][SetStep =>
          LET call == calls'[Len(calls')]
              key == SectionIdOf(call.pos)
          IN  /\ PendingOf(blocks_map', key)
                     = Append(PendingOf(blocks_map, key),
                              <<call.block, CellOf(call.pos)>>)
              /\ KeysOf(blocks_map')
                     = IF \E i \in DOMAIN blocks_map : blocks_map[i].section_id = key
                       THEN KeysOf(blocks_map)
                       ELSE Append(KeysOf(blocks_map), key)
              /\ \A i \in DOMAIN blocks_map :
                     blocks_map[i].section_id # key => blocks_map'[i] = blocks_map[i]
              /\ UNCHANGED <<world, sections, chunks, write_sections, returned>>
              /\ \A pos \in Positions \cup FlushPositions :
                     GetBlockResult(pos, sections', chunks', world')
                         = GetBlockResult(pos, sections, chunks, world)]_vars

\* C20: two blocks were set in one section and one in another; the list of
\* the first section holds its two entries in the order of the calls
C20_Witness ==
    /\ Len(calls) = 3
    /\ \A i \in 1..3 : calls[i].op = "set_block"
    /\ calls[1].pos = <<0, 0, 0>> /\ calls[2].pos = <<-1, 0, 0>>
    /\ calls[3].pos = <<1, 0, 0>>
    /\ calls[1].block # calls[3].block
    /\ Len(blocks_map) = 2
    /\ blocks_map[1].updates = <<<<calls[1].block, 0>>, <<calls[3].block, 1>>>>
    /\ world = InitialWorld

(***************************************************************************)
(* Block.__eq__ / __hash__                                                 *)
(***************************************************************************)
\* the property mapping as a mathematical function from names to values
Mapping(block) ==
    [name \in {block.properties[i][1] : i \in DOMAIN block.properties} |->
        block.properties[
            CHOOSE i \in DOMAIN block.properties :
                block.properties[i][1] = name][2]]

\* C23: two Blocks are equal exactly when their identifiers are equal and
\* their property mappings are the same function; equal Blocks have equal
\* hashes; a set holds no two equal Blocks and holds an equal of every
\* Block added to it.
C23_BlockEquality ==
    (bk_pc # "new") =>
        /\ bk_eq = (bk_a.id = bk_b.id /\ Mapping(bk_a) = Mapping(bk_b))
        /\ bk_eq => BlockHash(bk_a) = BlockHash(bk_b)
        /\ \A i, j \in DOMAIN bk_set :
               (i # j) => ~(/\ bk_set[i].id = bk_set[j].id
                            /\ Mapping(bk_set[i]) = Mapping(bk_set[j]))
        /\ (bk_eq /\ bk_pc = "add") => Len(bk_set) = 1

\* C23: two Blocks with the same two properties in different insertion
\* order were compared and both added to a set; they are equal and the set
\* holds one of them
C23_Witness ==
    /\ bk_pc = "add"
    /\ bk_a.properties = <<<<1, 1>>, <<2, 1>>>>
    /\ bk_b.properties = <<<<2, 1>>, <<1, 1>>>>
    /\ bk_a.id = bk_b.id
    /\ bk_eq
    /\ Len(bk_set) = 1

(***************************************************************************)
(* Section.get_palette / read_blocks                                       *)
(***************************************************************************)
\* two sequences of Blocks are equal Block by Block
SameBlocks(p, q) ==
    Len(p) = Len(q) /\ \A i \in DOMAIN p : BlockEq(p[i], q[i])

\* C24: the palette get_nbt stores holds each distinct Block of the section
\* exactly once, in the order of the repr; two sections whose cells hold
\* equal Blocks get the same palette sequence and the same data words.
C24_DeterministicPalette ==
    (pl_pc = "packed") =>
        /\ \A k \in DOMAIN pl_blocks :
               \E i \in DOMAIN pl_nbt.palette :
                   BlockEq(BlockFromCompound(pl_nbt.palette[i]), pl_blocks[k])
        /\ \A i, j \in DOMAIN pl_nbt.palette :
               (i < j) =>
                   /\ ~BlockEq(BlockFromCompound(pl_nbt.palette[i]),
                               BlockFromCompound(pl_nbt.palette[j]))
                   /\ ~ReprLess(pl_nbt.palette[j], pl_nbt.palette[i])
        /\ SameBlocks(pl_nbt.palette, pl_other_nbt.palette)
        /\ pl_nbt.data = pl_other_nbt.data

\* C24: the two sections hold, in cells 0 and 1, a Block with the two
\* properties in opposite insertion order and a Block with one property;
\* the palettes have the two in opposite order and the data words differ
C24_Witness ==
    /\ pl_pc = "packed"
    /\ SameBlocks(pl_blocks, pl_other)
    /\ pl_blocks[1].properties = <<<<1, 1>>, <<2, 1>>>>
    /\ pl_other[1].properties = <<<<2, 1>>, <<1, 1>>>>
    /\ pl_blocks[2].properties = <<<<1, 2>>>>
    /\ ~SameBlocks(pl_nbt.palette, pl_other_nbt.palette)
    /\ pl_nbt.data # pl_other_nbt.data

\* C26: read_blocks gets the same blocks from a compound whether its data
\* words are delivered signed or unsigned.
C26_SignedWords ==
    (pl_pc = "read") =>
        /\ pl_read = read_blocks_delivered(pl_nbt, PalCells, ~pl_signed)
        /\ SameBlocks(pl_read, pl_blocks)

\* C26: the first and the second data word have bit 63 set and were
\* delivered as negative numbers; the blocks read are those packed
C26_Witness ==
    /\ pl_pc = "read"
    /\ pl_signed
    /\ Len(pl_nbt.palette) > 1
    /\ Delivered(pl_nbt.data[1], pl_signed).negative
    /\ Delivered(pl_nbt.data[2], pl_signed).negative
    /\ SameBlocks(pl_read, pl_blocks)

(***************************************************************************)
(* Chunk.__init__ on entries without block states                          *)
(***************************************************************************)
\* a sections-list entry that carries neither a palette nor block data
Bare(section) ==
    "palette" \notin DOMAIN section /\ "data" \notin DOMAIN section

\* C25: an entry of the sections list with neither a palette nor block data
\* is not stored in the level -> section mapping of the Chunk, and a
\* request for a level that has a section with block states raises nothing.
C25_EmptyEntriesSkipped ==
    /\ \A y \in DOMAIN ck_chunk.sections : ~Bare(ck_chunk.sections[y])
    /\ (/\ ck_pc = "get_section"
        /\ InRange(ck_arg)
        /\ ck_arg \in DOMAIN ck_chunk.sections
        /\ ~Bare(ck_chunk.sections[ck_arg]))
           => ck_result.raised = "none"

\* C25: the decoded chunk has an entry with Y = 1 and biomes only; the Chunk
\* holds it as the section of level 1, and get_section(1) raised KeyError
C25_Witness ==
    /\ \E i \in DOMAIN ck_chunk.nbt_data.sections :
          /\ Bare(ck_chunk.nbt_data.sections[i])
          /\ ck_chunk.nbt_data.sections[i].Y = 1
    /\ 1 \in DOMAIN ck_chunk.sections
    /\ Bare(ck_chunk.sections[1])
    /\ ck_pc = "get_section"
    /\ ck_arg = 1
    /\ ck_result.raised = "KeyError"

(***************************************************************************)
(* Editor.copy_blocks                                                      *)
(***************************************************************************)
\* the step is a call of copy_blocks that raised nothing, and its arguments
CopyStep ==
    /\ Len(calls') = Len(calls) + 1
    /\ calls'[Len(calls')].op = "copy_blocks"
    /\ calls'[Len(calls')].raised = "none"

StepArgs == calls'[Len(calls')].args

\* the repetition offsets of a call: (0,0,0) alone when rep is absent
Reps(args) == IF args.rep = <<>> THEN <<<<0, 0, 0>>>> ELSE args.rep

\* the copies a call makes: the n-th offset of the cuboid, j-th repetition
Copies(args) ==
    (1..(args.size[1] * args.size[2] * args.size[3])) \X DOMAIN Reps(args)

\* where a copy goes to and where it comes from
Target(args, copy) ==
    Plus(Plus(args.dest, Offset(args.size, copy[1])), Reps(args)[copy[2]])

Origin(args, copy) == Plus(args.source, Offset(args.size, copy[1]))

\* the section id and index of a position
IdIndex(pos) == block_to_id_index(pos[1], pos[2], pos[3])

\* the Block the files hold at a position
BlockOnDisk(files, pos) == GetBlockResult(pos, <<>>, <<>>, files).block

\* the writes a step appended to the list of a section
NewWrites(section_id) ==
    SubSeq(PendingOf(blocks_map', section_id),
           Len(PendingOf(blocks_map, section_id)) + 1,
           Len(PendingOf(blocks_map', section_id)))

\* the writes a copy_blocks step queued are, cell by cell, those of the
\* copies that go to the cell, with the Block the files held at the origin
QueuedFromSource ==
    LET touched == {IdIndex(Target(StepArgs, copy)) : copy \in Copies(StepArgs)}
                   \cup {<<blocks_map'[i].section_id[1],
                           blocks_map'[i].section_id[2],
                           blocks_map'[i].section_id[3], index>> :
                             i \in DOMAIN blocks_map', index \in 0..(CHUNK_SIZE - 1)}
    IN  \A cell \in touched :
            LET to == {copy \in Copies(StepArgs) :
                          IdIndex(Target(StepArgs, copy)) = cell}
                new == SelectSeq(NewWrites(<<cell[1], cell[2], cell[3]>>),
                                 LAMBDA change : change[2] = cell[4])
            IN  /\ Len(new) = Cardinality(to)
                /\ \A copy \in to :
                       \E k \in DOMAIN new :
                           BlockEq(new[k][1],
                                   BlockOnDisk(world, Origin(StepArgs, copy)))

\* no two copies of a call go to the same cell
NoOverlap(args) ==
    \A a, b \in Copies(args) :
        Target(args, a) = Target(args, b) => a = b

\* after copy_blocks and done on the new Editor, every copy holds the
\* Blocks of the source cuboid, and the source cuboid is as it was
CopiedAfterDone ==
    (/\ Len(calls) = 2
     /\ calls[1].op = "copy_blocks" /\ calls[1].raised = "none"
     /\ calls[2].op = "done" /\ calls[2].raised = "none"
     /\ NoOverlap(calls[1].args))
        => \A copy \in Copies(calls[1].args) :
               /\ BlockEq(BlockOnDisk(world, Target(calls[1].args, copy)),
                          BlockOnDisk(CopyWorld, Origin(calls[1].args, copy)))
               /\ BlockEq(BlockOnDisk(world, Origin(calls[1].args, copy)),
                          BlockOnDisk(CopyWorld, Origin(calls[1].args, copy)))

LoadedEntities(id) ==
    IF id \in DOMAIN chunks THEN chunks[id].nbt_data.block_entities
    ELSE world[id].block_entities

\* those of them that lie inside the source cuboid of the step
SourceEntities ==
    {entity \in UNION {{LoadedEntities(id)[i] : i \in DOMAIN LoadedEntities(id)} :
                          id \in DOMAIN chunks'} :
        Inside(entity, StepArgs.source, StepArgs.size)}

\* the entities the step has to queue: every source entity at every copy
ExpectedEntities ==
    {Shifted(Shifted(entity, Minus(StepArgs.dest, StepArgs.source)),
             Reps(StepArgs)[j]) :
        entity \in SourceEntities, j \in DOMAIN Reps(StepArgs)}

\* C22: after copy_blocks the pending entity map holds, for every block
\* entity of a loaded source chunk inside the source cuboid and for every
\* copy of its cell, exactly one entity with the coordinates of the copy,
\* under the (region, chunk) key of those coordinates, and no other entity.
C22_EntitiesRehomed ==
    [][CopyStep =>
          /\ \A want \in ExpectedEntities :
                 /\ Cardinality({i \in DOMAIN entities' :
                                    entities'[i].entity = want}) = 1
                 /\ \A i \in DOMAIN entities' :
                        entities'[i].entity = want
                            => entities'[i].key = EntityKey(want)
          /\ \A i \in DOMAIN entities' :
                 entities'[i].entity \in ExpectedEntities]_vars

\* C22: the first call copied two cells from x = 0 to x = 16 with the
\* repetitions (0,0,0) and (2,0,0); the pending map holds the entity of
\* x = 0 twice at x = 16
C22_Witness ==
    /\ Len(calls) = 1
    /\ calls[1].op = "copy_blocks"
    /\ calls[1].args.rep = <<<<0, 0, 0>>, <<2, 0, 0>>>>
    /\ calls[1].args.dest = <<16, 0, 0>>
    /\ Cardinality({i \in DOMAIN entities :
                       entities[i].entity = [id |-> 1, x |-> 16, y |-> 0, z |-> 0]}) = 2

(***************************************************************************)
(* Editor.done twice                                                       *)
(***************************************************************************)
\* the blocks of the sections of a chunk on disk: level -> blocks
BlocksOnDisk(nbt_data) ==
    [y \in DOMAIN Chunk(nbt_data).sections |->
        read_blocks(Chunk(nbt_data).sections[y], EditorCells)]

\* two worlds have the same chunks with the same blocks in every section
SameBlocksOnDisk(before, after) ==
    /\ DOMAIN before = DOMAIN after
    /\ \A id \in DOMAIN before :
           BlocksOnDisk(before[id]) = BlocksOnDisk(after[id])

\* two worlds have the same chunks with the same block-entity lists
SameEntitiesOnDisk(before, after) ==
    /\ DOMAIN before = DOMAIN after
    /\ \A id \in DOMAIN before :
           before[id].block_entities = after[id].block_entities

\* the step is a call of done right after a call of done
SecondDoneStep ==
    /\ DoneStep
    /\ calls # <<>>
    /\ calls[Len(calls)].op = "done"

RepeatedCopyStep ==
    /\ CopyStep
    /\ calls # <<>>
    /\ calls[Len(calls)] = calls'[Len(calls')]

\* C28: after copy_blocks every block entity of the cached source chunks
\* has the x, y and z it had before the call, and a repetition of the same
\* call queues the same entities again.
C28_SourceEntitiesKept ==
    /\ [][CopyStep =>
             \A id \in DOMAIN chunks' :
                 chunks'[id].nbt_data.block_entities = LoadedEntities(id)]_vars
    /\ [][RepeatedCopyStep => entities' = entities]_vars

\* C28: copy_blocks from x = 0 to x = 4 was called twice; the cached chunk
\* holds the entity of x = 0 at x = 4, the file holds it at x = 0, and the
\* second call queued no entity
C28_Witness ==
    /\ Len(calls) = 2
    /\ calls[1].op = "copy_blocks" /\ calls[1].args.dest = <<4, 0, 0>>
    /\ calls[1].args.rep = <<>>
    /\ calls[2] = calls[1]
    /\ chunks[<<<<0, 0>>, <<0, 0>>>>].nbt_data.block_entities[1].x = 4
    /\ world[<<<<0, 0>>, <<0, 0>>>>].block_entities[1].x = 0
    /\ entities = <<>>

(***************************************************************************)
(* Editor.entities over several calls of copy_blocks                       *)
(***************************************************************************)
\* done has not been called yet
NotFlushed == \A i \in DOMAIN calls : calls[i].op # "done"

\* C29: a call of copy_blocks before done leaves the entities queued by the
\* earlier calls in the pending entity map, and done merges the pending
\* entities into the chunks of their keys.
C29_EntitiesAccumulate ==
    /\ [][(CopyStep /\ NotFlushed) =>
             \A i \in DOMAIN entities :
                 \E j \in DOMAIN entities' : entities'[j] = entities[i]]_vars
    /\ [][(DoneStep /\ NotFlushed /\ calls'[Len(calls')].raised = "none") =>
             \A i \in DOMAIN entities :
                 \E k \in DOMAIN world'[entities[i].key].block_entities :
                     world'[entities[i].key].block_entities[k]
                         = entities[i].entity]_vars

\* C29: copy_blocks from x = 0 to x = 4, copy_blocks from x = 4 to x = 8 and
\* done: the file holds at x = 4 the Block copied from x = 0 but no block
\* entity at x = 4; the entity the first call queued was discarded
C29_Witness ==
    /\ Len(calls) = 3
    /\ calls[1].op = "copy_blocks" /\ calls[1].args.dest = <<4, 0, 0>>
    /\ calls[1].args.rep = <<>>
    /\ calls[2].op = "copy_blocks" /\ calls[2].args.source = <<4, 0, 0>>
    /\ calls[3].op = "done" /\ calls[3].raised = "none"
    /\ BlockEq(BlockOnDisk(world, <<4, 0, 0>>), BlockOnDisk(CopyWorld, <<0, 0, 0>>))
    /\ \A k \in DOMAIN world[<<<<0, 0>>, <<0, 0>>>>].block_entities :
           world[<<<<0, 0>>, <<0, 0>>>>].block_entities[k].x # 4

(***************************************************************************)
(* Editor.done and the sections without pending writes                     *)
(***************************************************************************)
\* the levels of a chunk that have pending writes
PendingLevels(id) ==
    {blocks_map[i].section_id[3] :
        i \in {j \in DOMAIN blocks_map :
                  <<blocks_map[j].section_id[1], blocks_map[j].section_id[2]>> = id}}

=============================================================================
